---- MODULE Spec2Model ----
(***************************************************************************)
(* Model of the operation pipeline of mai-cli: the filesystem helpers of   *)
(* utils/file-utils, the plan executor (core/plan-executor.ts), the        *)
(* reachability validator (core/operation-validator.ts), the schema check  *)
(* (core/operation-schema.ts), delimiter escaping                          *)
(* (core/operation-definitions.ts), the response parser                    *)
(* (core/ai-response-parser.ts), the fixer (core/plan-fixer.ts), the plan  *)
(* reviewer (core/plan-reviewer.ts), its caller handleFinalResponse and    *)
(* the two conversation loops of processRequest (core/main-processor.ts).  *)
(*                                                                         *)
(* Text is a sequence of one-character strings; "\n" is LF and "\r" is CR. *)
(* A path is a string and the empty string stands for a missing path (the  *)
(* code tests paths with !path).  An optional find is the empty text when  *)
(* absent (the code tests it with if (find)).                              *)
(***************************************************************************)
EXTENDS Integers, Sequences, FiniteSets, TLC

VARIABLES
    fs,                   \* the files on disk: path -> text, for the existing files
    dirs,                 \* the directories that exist
    ignoredFiles,         \* the paths isFileIgnored answers true for
    unreadable,           \* existing files whose readFile throws (EACCES)
    plan,                 \* executePlan: the operations argument
    pc,                   \* executePlan: position in the function
    idx,                  \* executePlan: index of the next operation of the loop
    backupTodo,           \* executePlan: filesToBackup still to read, in insertion order
    fileOriginalContents, \* executePlan: the backup map
    executionResults,     \* executePlan: per-operation results
    failedOperations,     \* executePlan: the failures recorded
    successfulOps,        \* executePlan: counter
    failedOps,            \* executePlan: counter
    calls,                \* the file-utils primitives called, in order, each with the
                          \* operation's index and whether the disk failed it
    fs0,                  \* the files on disk when executePlan was called
    callerView,           \* what the caller of executePlan gets back
    rops,                 \* reachability: the operations last validated
    rresult,              \* reachability: the outcome of that validation
    escInput,             \* escaping: the content given to escapeDelimiters
    escOutput,            \* escaping: what escaping and then unescaping made of it
    parseCall,            \* response parser: the function called and its arguments
    parseResult,          \* response parser: what the call gave back
    failedOpsArg,         \* autoFixOperations: the failedOps argument
    maxRetries,           \* autoFixOperations: the maxRetries argument
    fixPc,                \* autoFixOperations: position in the function
    attempt,              \* autoFixOperations: the loop variable
    messages,             \* autoFixOperations: the conversation sent to the model
    modelCalls,           \* the streamAiResponse calls made so far, with their outcome
    fixResult,            \* autoFixOperations: what the caller gets back
    rvOperations,         \* handleFinalResponse: the file operations parsed from the response
    autoApply,            \* reviewAndExecutePlan: the autoApply argument
    rvPc,                 \* position in handleFinalResponse / reviewAndExecutePlan
    currentOperations,    \* reviewAndExecutePlan: the plan as it stands
    applied,              \* reviewAndExecutePlan: the local applied
    rounds,               \* reviewAndExecutePlan: passes of the review loop so far
    rvLog,                \* the prompts shown and the collaborators called, in order
    rvResult,             \* reviewAndExecutePlan: what the caller gets back
    lastReview,           \* reviewChangesInDetail: the last call, its diffs and its result
    callerBackup,         \* handleFinalResponse: its fileOriginalContents map
    history,              \* the entries handed to saveAiHistory
    autoContextEnabled,   \* processRequest: which of the two conversation loops runs
    maxRoundsSetting,     \* the autoContext.maxRounds of the configuration file
    round,                \* conversation loop: the local round
    aiCalls,              \* conversation loop: the callAi calls made so far
    allResponses,         \* conversation loop: the number of replies pushed
    lastReply,            \* conversation loop: what the last reply parses to
    finalResponse,        \* conversation loop: the reply handed on, and to what
    gatherPc,             \* conversation loop: position in the function
    heap,                 \* the operation objects: object k is heap[k]
    arrays,               \* the arrays of operations: array a holds the objects arrays[a]
    passed,               \* reviewAndExecutePlan: the plan its caller passed, as a value
    current,              \* reviewAndExecutePlan: the array currentOperations refers to
    executed,             \* executePlan: the array executedOperations refers to
    cycles,               \* reviewAndExecutePlan: review and auto-fix cycles so far
    aliasPc               \* position in reviewAndExecutePlan, for the objects it holds

envVars == <<fs, dirs, ignoredFiles, unreadable>>
execVars == <<plan, pc, idx, backupTodo, fileOriginalContents, executionResults,
              failedOperations, successfulOps, failedOps, calls, fs0, callerView>>
reachVars == <<rops, rresult>>
escVars == <<escInput, escOutput>>
parseVars == <<parseCall, parseResult>>
fixVars == <<failedOpsArg, maxRetries, fixPc, attempt, messages, modelCalls, fixResult>>
\* the state of the parser and of the fixer, which executePlan and the reachability
\* validator never touch
parserSideVars == <<escVars, parseVars, fixVars>>
reviewVars == <<rvOperations, autoApply, rvPc, currentOperations, applied, rounds, rvLog,
                rvResult, lastReview, callerBackup, history>>
gatherVars == <<autoContextEnabled, maxRoundsSetting, round, aiCalls, allResponses,
                lastReply, finalResponse, gatherPc>>
\* the state of the callers of the pipeline, which the pipeline never touches
aliasVars == <<heap, arrays, passed, current, executed, cycles, aliasPc>>
outerVars == <<gatherVars, aliasVars>>
vars == <<envVars, execVars, reachVars, parserSideVars, reviewVars, outerVars>>

----------------------------------------------------------------------------
(* Bounds *)

\* longest plan handed to executePlan
MaxOps == 2
\* longest file text enumerated for the reachability validator
MaxStrLen == 3
\* longest find text enumerated for the reachability validator
MaxFindLen == 2
\* longest operation list handed to batch reachability validation
MaxBatch == 2

----------------------------------------------------------------------------
(* Text *)

LF == "\n"
CR == "\r"

\* the text of a string literal, one character per element
T_foo == <<"f", "o", "o">>
T_bar == <<"b", "a", "r">>
T_hi == <<"h", "i">>
T_foobaz == <<"f", "o", "o", LF, "b", "a", "z", LF>>
T_barbaz == <<"b", "a", "r", LF, "b", "a", "z", LF>>
T_foofoo == <<"f", "o", "o", LF, "f", "o", "o">>

\* String.prototype.includes
Includes(s, sub) ==
    \E i \in 1..(Len(s) - Len(sub) + 1) : SubSeq(s, i, i + Len(sub) - 1) = sub

\* s.replace(/(?<!\r)\n/g, lineEnding): every LF not preceded by CR becomes lineEnding
RECURSIVE AdaptFrom(_, _, _)
AdaptFrom(s, lineEnding, i) ==
    IF i > Len(s) THEN <<>>
    ELSE (IF s[i] = LF /\ (i = 1 \/ s[i - 1] # CR) THEN lineEnding ELSE <<s[i]>>)
         \o AdaptFrom(s, lineEnding, i + 1)

AdaptLineEndings(s, lineEnding) == AdaptFrom(s, lineEnding, 1)

\* the line ending of a file: CRLF when the text holds one, LF otherwise
LineEndingOf(originalContent) ==
    IF Includes(originalContent, <<CR, LF>>) THEN <<CR, LF>> ELSE <<LF>>

\* number of separators String.prototype.split finds from position pos on: it scans
\* left to right and resumes after each match, so matches never overlap
RECURSIVE SplitMatches(_, _, _)
SplitMatches(s, sep, pos) ==
    IF pos + Len(sep) - 1 > Len(s) THEN 0
    ELSE IF SubSeq(s, pos, pos + Len(sep) - 1) = sep
         THEN 1 + SplitMatches(s, sep, pos + Len(sep))
         ELSE SplitMatches(s, sep, pos + 1)

\* s.split(sep).length - 1; an empty separator splits s into its characters
SplitCountMinusOne(s, sep) ==
    IF sep = <<>> THEN Len(s) - 1 ELSE SplitMatches(s, sep, 1)

\* index of the first occurrence of sub in s, 0 when there is none
FirstIndexOf(s, sub) ==
    IF Includes(s, sub)
    THEN CHOOSE i \in 1..(Len(s) - Len(sub) + 1) :
             /\ SubSeq(s, i, i + Len(sub) - 1) = sub
             /\ \A j \in 1..(i - 1) : SubSeq(s, j, j + Len(sub) - 1) # sub
    ELSE 0

\* s.replace(pattern, () => replacement) with a string pattern: the first occurrence
ReplaceFirst(s, pattern, replacement) ==
    LET i == FirstIndexOf(s, pattern) IN
    IF i = 0 THEN s
    ELSE SubSeq(s, 1, i - 1) \o replacement \o SubSeq(s, i + Len(pattern), Len(s))

computeFindMatchCount(originalContent, find) ==
    LET lineEnding == LineEndingOf(originalContent)
        adaptedFind == AdaptLineEndings(find, lineEnding)
    IN SplitCountMinusOne(originalContent, adaptedFind)

\* [threw, error, value]: value is the new file text when nothing was thrown
replaceInFile(originalContent, content, find) ==
    IF find # <<>>
    THEN LET lineEnding == LineEndingOf(originalContent)
             replacementString == AdaptLineEndings(content, lineEnding)
             adaptedFind == AdaptLineEndings(find, lineEnding)
             matchCount == SplitCountMinusOne(originalContent, adaptedFind)
         IN IF matchCount = 0
            THEN [threw |-> TRUE, error |-> "no match", value |-> <<>>]
            ELSE IF matchCount > 1
            THEN [threw |-> TRUE, error |-> "multiple matches", value |-> <<>>]
            ELSE [threw |-> FALSE, error |-> "",
                  value |-> ReplaceFirst(originalContent, adaptedFind, replacementString)]
    ELSE [threw |-> FALSE, error |-> "", value |-> content]

----------------------------------------------------------------------------
(* Operations and the schema check *)

FileA == "a.txt"
FileB == "d/b.txt"
Files == {FileA, FileB}
RootDir == "."
SubDir == "d"

\* path.dirname
DirOf(p) == IF p = FileB THEN SubDir ELSE RootDir

Op(type, filePath, oldPath, newPath, content, find) ==
    [type |-> type, filePath |-> filePath, oldPath |-> oldPath, newPath |-> newPath,
     content |-> content, find |-> find]

CreateOp(p, c) == Op("create", p, "", "", c, <<>>)
EditOp(p, c, f) == Op("edit", p, "", "", c, f)
WriteWithReplaceOp(p, c, f) == Op("writeWithReplace", p, "", "", c, f)
MoveOp(old, new) == Op("move", "", old, new, <<>>, <<>>)
DeleteOp(p) == Op("delete", p, "", "", <<>>, <<>>)
\* the value null or undefined in the place of an operation
NullOp == Op("<null>", "", "", "", <<>>, <<>>)

\* AiOperationSchema.parse succeeds: the type is one of the union's literals and the
\* variant's path fields have length >= 1 (content is always a string in this model;
\* the context variants need a path field that no operation of the model carries)
validateOperation(op) ==
    CASE op.type = "response" -> TRUE
      [] op.type = "create" -> op.filePath # ""
      [] op.type = "edit" -> op.filePath # ""
      [] op.type = "move" -> op.oldPath # "" /\ op.newPath # ""
      [] op.type = "delete" -> op.filePath # ""
      [] OTHER -> FALSE

\* [isValid, errors]: errors holds the 0-based index of every invalid operation
validateOperations(operations) ==
    LET bad == SelectSeq([i \in 1..Len(operations) |-> i - 1],
                         LAMBDA k : ~validateOperation(operations[k + 1]))
    IN [isValid |-> bad = <<>>, errors |-> bad]

----------------------------------------------------------------------------
(* The filesystem primitives of file-utils.  Each yields                   *)
(* [threw, error, fs, dirs]: whether it threw, and the disk afterwards.    *)
(* fault = "io" makes the mutating system call (writeFile, rename, unlink) *)
(* fail, as it does on a permission or disk error.                         *)

Faults == {"none", "io"}

Exists(files, p) == p \in DOMAIN files

\* the map files with p bound to text
WriteTo(files, p, text) ==
    [q \in DOMAIN files \cup {p} |-> IF q = p THEN text ELSE files[q]]

\* the map files without p
Remove(files, p) == [q \in DOMAIN files \ {p} |-> files[q]]

Outcome(threw, error, files, directories) ==
    [threw |-> threw, error |-> error, fs |-> files, dirs |-> directories]

\* fs.mkdir(dirname, {recursive: true}) then fs.writeFile
createFile(files, directories, filePath, content, fault) ==
    LET made == directories \cup {DirOf(filePath)} IN
    IF fault = "io" \/ filePath = ""
    THEN Outcome(TRUE, "EIO", files, made)
    ELSE Outcome(FALSE, "", WriteTo(files, filePath, content), made)

\* fs.readFile, replaceInFile, fs.writeFile
writeFileWithReplace(files, directories, filePath, content, find, fault) ==
    IF ~Exists(files, filePath)
    THEN Outcome(TRUE, "ENOENT", files, directories)
    ELSE LET r == replaceInFile(files[filePath], content, find) IN
         IF r.threw THEN Outcome(TRUE, r.error, files, directories)
         ELSE IF fault = "io" THEN Outcome(TRUE, "EIO", files, directories)
         ELSE Outcome(FALSE, "", WriteTo(files, filePath, r.value), directories)

\* fs.access(oldPath), fs.mkdir(dirname(newPath)), fs.rename (which replaces newPath)
moveFile(files, directories, oldPath, newPath, fault) ==
    IF ~Exists(files, oldPath)
    THEN Outcome(TRUE, "ENOENT", files, directories)
    ELSE LET made == directories \cup {DirOf(newPath)} IN
         IF fault = "io" THEN Outcome(TRUE, "EIO", files, made)
         ELSE Outcome(FALSE, "",
                      WriteTo(Remove(files, oldPath), newPath, files[oldPath]), made)

\* fs.unlink
deleteFile(files, directories, filePath, fault) ==
    IF ~Exists(files, filePath)
    THEN Outcome(TRUE, "ENOENT", files, directories)
    ELSE IF fault = "io" THEN Outcome(TRUE, "EIO", files, directories)
    ELSE Outcome(FALSE, "", Remove(files, filePath), directories)

----------------------------------------------------------------------------
(* OperationValidator: reachability.  env is the disk the checks consult:  *)
(* [fs, dirs, ignored, unreadable].  A check yields [threw, isValid,       *)
(* errors]; threw says an exception left the function.                     *)

Env(files, directories, ignored, noRead) ==
    [fs |-> files, dirs |-> directories, ignored |-> ignored, unreadable |-> noRead]

\* an error message: its wording (kind), the path and the count it prints; index and
\* type are the prefix the batch form adds (0 and "" without a prefix)
Err(kind, path, count) ==
    [index |-> 0, type |-> "", kind |-> kind, path |-> path, count |-> count]

Valid == [threw |-> FALSE, isValid |-> TRUE, errors |-> <<>>]
Invalid(e) == [threw |-> FALSE, isValid |-> FALSE, errors |-> <<e>>]
Raise == [threw |-> TRUE, isValid |-> FALSE, errors |-> <<>>]

\* fs.access resolves: the path is an existing file or directory
Accessible(env, p) == p \in DOMAIN env.fs \/ p \in env.dirs

\* the check of a create that never looks at the disk
validateCreateReachability_NoExistsCheck(op, env) ==
    IF op.filePath = "" THEN Invalid(Err("create: missing file path", "", 0)) ELSE Valid

validateCreateReachability(op, env) ==
    IF op.filePath = "" THEN Invalid(Err("create: missing file path", "", 0))
    ELSE IF Accessible(env, op.filePath)
    THEN Invalid(Err("file already exists", op.filePath, 0))
    ELSE Valid

\* the try block of validateEditReachability; Raise where fs.access or fs.readFile throws
EditChecks(op, env) ==
    IF op.filePath \in env.ignored THEN Invalid(Err("file is ignored", "", 0))
    ELSE IF ~Accessible(env, op.filePath) THEN Raise
    ELSE IF op.find # <<>>
    THEN IF op.filePath \notin DOMAIN env.fs \/ op.filePath \in env.unreadable THEN Raise
         ELSE LET findCount == computeFindMatchCount(env.fs[op.filePath], op.find) IN
              IF findCount = 0
              THEN Invalid(Err("find text not found", op.filePath, 0))
              ELSE IF findCount > 1
              THEN Invalid(Err("multiple matches", op.filePath, findCount))
              ELSE Valid
    ELSE Valid

validateEditReachability(op, env) ==
    IF op.filePath = "" THEN Invalid(Err("edit: missing file path", "", 0))
    ELSE LET r == EditChecks(op, env) IN
         IF r.threw THEN Invalid(Err("cannot access file", op.filePath, 0)) ELSE r

\* error.message.includes('源文件') in the catch block of validateMoveReachability: the
\* message of a failed fs.access is "ENOENT: no such file or directory, access '<path>'",
\* which holds that text only when the path does, and no path of the model does
AccessErrorNamesSource(p) == FALSE

\* the check of a move without the look at the target path
validateMoveReachability_NoTargetCheck(op, env) ==
    IF op.oldPath = "" \/ op.newPath = ""
    THEN Invalid(Err("move: missing source or target path", "", 0))
    ELSE IF ~Accessible(env, op.oldPath) \/ ~Accessible(env, DirOf(op.newPath))
    THEN Invalid(Err("cannot access target directory", DirOf(op.newPath), 0))
    ELSE Valid

validateMoveReachability(op, env) ==
    IF op.oldPath = "" \/ op.newPath = ""
    THEN Invalid(Err("move: missing source or target path", "", 0))
    ELSE IF ~Accessible(env, op.oldPath)
    THEN IF AccessErrorNamesSource(op.oldPath)
         THEN Invalid(Err("source file does not exist", op.oldPath, 0))
         ELSE Invalid(Err("cannot access target directory", DirOf(op.newPath), 0))
    ELSE IF ~Accessible(env, DirOf(op.newPath))
    THEN IF AccessErrorNamesSource(DirOf(op.newPath))
         THEN Invalid(Err("source file does not exist", op.oldPath, 0))
         ELSE Invalid(Err("cannot access target directory", DirOf(op.newPath), 0))
    ELSE IF Accessible(env, op.newPath)
    THEN Invalid(Err("target file already exists", op.newPath, 0))
    ELSE Valid

validateDeleteReachability(op, env) ==
    IF op.filePath = "" THEN Invalid(Err("delete: missing file path", "", 0))
    ELSE IF Accessible(env, op.filePath) THEN Valid
    ELSE Invalid(Err("file does not exist", op.filePath, 0))

\* the try block of validateOperationReachability: reading op.type of null throws
ReachabilitySwitch(op, env) ==
    IF op = NullOp THEN Raise
    ELSE CASE op.type = "create" -> validateCreateReachability(op, env)
           [] op.type = "edit" -> validateEditReachability(op, env)
           [] op.type = "move" -> validateMoveReachability(op, env)
           [] op.type = "delete" -> validateDeleteReachability(op, env)
           [] OTHER -> Invalid(Err("unknown operation type", op.type, 0))

\* the single check without its catch block
validateOperationReachability_NoCatch(op, env) == ReachabilitySwitch(op, env)

validateOperationReachability(op, env) ==
    LET r == ReachabilitySwitch(op, env) IN
    IF r.threw THEN Invalid(Err("error while validating reachability", "", 0)) ELSE r

\* the prefix built from the loop variable itself, i.e. 0-based
PrefixedErrors_ZeroBased(i, op, r) ==
    [k \in 1..Len(r.errors) |-> [r.errors[k] EXCEPT !.index = i - 1, !.type = op.type]]

\* the errors of operation i, each prefixed with the 1-based index and the type
PrefixedErrors(i, op, r) ==
    [k \in 1..Len(r.errors) |-> [r.errors[k] EXCEPT !.index = i, !.type = op.type]]

\* the loop of validateOperationsReachability from operation i on.  An exception of
\* the single check leaves the loop, and so does building the prefix for a null
\* operation, which reads op.type outside any try block.
RECURSIVE ReachabilityErrorsFrom(_, _, _)
ReachabilityErrorsFrom(operations, env, i) ==
    IF i > Len(operations) THEN [threw |-> FALSE, errors |-> <<>>]
    ELSE LET op == operations[i]
             r == validateOperationReachability(op, env)
         IN IF r.threw \/ (~r.isValid /\ op = NullOp)
            THEN [threw |-> TRUE, errors |-> <<>>]
            ELSE LET rest == ReachabilityErrorsFrom(operations, env, i + 1) IN
                 IF rest.threw THEN rest
                 ELSE [threw |-> FALSE,
                       errors |-> (IF r.isValid THEN <<>> ELSE PrefixedErrors(i, op, r))
                                  \o rest.errors]

validateOperationsReachability(operations, env) ==
    LET all == ReachabilityErrorsFrom(operations, env, 1) IN
    IF all.threw THEN Raise
    ELSE [threw |-> FALSE, isValid |-> all.errors = <<>>, errors |-> all.errors]

----------------------------------------------------------------------------
(* executePlan *)

ExecContents == {T_foobaz, T_foofoo}

\* the operations plans are built from: every variant, on both files, an edit with
\* and without find, and two that fail the schema check (a type outside the enum, an
\* empty filePath)
ExecOps ==
    {CreateOp(p, T_bar) : p \in Files}
    \cup {EditOp(FileA, T_bar, f) : f \in {<<>>, T_foo}}
    \cup {DeleteOp(p) : p \in Files}
    \cup {MoveOp(FileA, FileB), MoveOp(FileB, FileA)}
    \cup {WriteWithReplaceOp(FileA, T_bar, T_foo), CreateOp("", T_bar)}

Plans == UNION {[1..n -> ExecOps] : n \in 0..MaxOps}

Disks(contents) == UNION {[D -> contents] : D \in SUBSET Files}

\* the directories a disk can have: the root, and d whenever d/b.txt exists
DirsFor(files) ==
    {D \in SUBSET {RootDir, SubDir} :
        RootDir \in D /\ (FileB \in DOMAIN files => SubDir \in D)}

EmptyMap == [q \in {} |-> <<>>]

Result(results, originals, nOk, nFailed, failures) ==
    [executionResults |-> results, fileOriginalContents |-> originals,
     successfulOps |-> nOk, failedOps |-> nFailed, failedOperations |-> failures]

NoResult == Result(<<>>, EmptyMap, 0, 0, <<>>)

\* what a caller holds after the call: a returned value, or a thrown Error, which
\* carries a message (kind and count) and nothing else
Pending == [status |-> "pending", errorKind |-> "", errorCount |-> 0,
            hasResult |-> FALSE, result |-> NoResult]
Returned(r) == [status |-> "returned", errorKind |-> "", errorCount |-> 0,
                hasResult |-> TRUE, result |-> r]
Thrown(kind, count) == [status |-> "threw", errorKind |-> kind, errorCount |-> count,
                        hasResult |-> FALSE, result |-> NoResult]

\* the types whose filePath executePlan puts in filesToBackup
BackedUpTypes == {"writeWithReplace", "delete"}

\* filesToBackup in Set insertion order, from operation i on, given those already in
RECURSIVE FilesToBackupFrom(_, _, _)
FilesToBackupFrom(operations, i, seen) ==
    IF i > Len(operations) THEN <<>>
    ELSE LET op == operations[i] IN
         IF op.type \in BackedUpTypes /\ op.filePath \notin seen
         THEN <<op.filePath>> \o FilesToBackupFrom(operations, i + 1, seen \cup {op.filePath})
         ELSE FilesToBackupFrom(operations, i + 1, seen)

FilesToBackup(operations) == FilesToBackupFrom(operations, 1, {})

\* the schema check never throwing
ValidationThrows_Never(operations) == FALSE

\* whether the schema check makes executePlan throw
ValidationThrows(operations) == ~validateOperations(operations).isValid

\* the switch of the loop body: the primitive called for op, "" for the default branch
PrimitiveFor(op) ==
    CASE op.type = "create" -> "createFile"
      [] op.type = "writeWithReplace" -> "writeFileWithReplace"
      [] op.type = "move" -> "moveFile"
      [] op.type = "delete" -> "deleteFile"
      [] OTHER -> ""

Dispatch(op, files, directories, fault) ==
    CASE PrimitiveFor(op) = "createFile" ->
            createFile(files, directories, op.filePath, op.content, fault)
      [] PrimitiveFor(op) = "writeFileWithReplace" ->
            writeFileWithReplace(files, directories, op.filePath, op.content, op.find, fault)
      [] PrimitiveFor(op) = "moveFile" ->
            moveFile(files, directories, op.oldPath, op.newPath, fault)
      [] PrimitiveFor(op) = "deleteFile" ->
            deleteFile(files, directories, op.filePath, fault)
      [] OTHER -> Outcome(TRUE, "unknown operation type", files, directories)

\* the index the for loop goes on with after the catch block ran for operation i of n
IndexAfterFailure(i, n) == i + 1

\* the final check tolerating one failure
ThrowsIncomplete_OffByOne(nFailed) == nFailed > 1

\* an executePlan that returns its result whatever failed
ThrowsIncomplete_Never(nFailed) == FALSE

\* whether the final check throws the aggregate error
ThrowsIncomplete(nFailed) == nFailed > 0

\* escapeDelimiters has not been called
EscIdle ==
    /\ escInput = <<>>
    /\ escOutput = [done |-> FALSE, escaped |-> <<>>, restored |-> <<>>]

\* a response text as the parser sees it: how the trimmed text starts and ends (shape),
\* what JSON5.parse makes of it (a SyntaxError, or a value whose operations are
\* decoded), and its lines
NoResponse == [shape |-> "text", json5 |-> "SyntaxError", decoded |-> <<>>, lines |-> <<>>]
NoParseCall ==
    [fn |-> "none", response |-> NoResponse, shouldValidate |-> TRUE, looseMode |-> FALSE]
\* what a call of the parser gave: an exception (threw, error) or operations; mode is
\* the branch that produced them, errors the number of blocks skipped, failed their
\* indices, blocks the blocks found in the text, jsonError the error of JSON mode that
\* was caught and printed, autoClosed the sub-blocks closed for want of an end marker,
\* trimmed the local of that name of parseAiResponse
NoParseResult ==
    [done |-> FALSE, threw |-> FALSE, error |-> "", mode |-> "", operations |-> <<>>,
     errors |-> 0, failed |-> {}, blocks |-> <<>>, jsonError |-> "", autoClosed |-> <<>>,
     trimmed |-> <<>>]

\* the parser has not been called
ParseIdle ==
    /\ parseCall = NoParseCall
    /\ parseResult = NoParseResult

FixPending == [status |-> "pending", operations |-> <<>>]

\* autoFixOperations has not been called
FixIdle ==
    /\ failedOpsArg = <<>>
    /\ maxRetries = 0
    /\ fixPc = "idle"
    /\ attempt = 0
    /\ messages = <<>>
    /\ modelCalls = <<>>
    /\ fixResult = FixPending

ParserSideIdle == EscIdle /\ ParseIdle /\ FixIdle

\* what reviewAndExecutePlan gives back: nothing yet, { applied }, or a thrown Error
ReviewPending == [status |-> "pending", applied |-> FALSE, error |-> ""]
ReviewReturned(flag) == [status |-> "returned", applied |-> flag, error |-> ""]
ReviewThrew(error) == [status |-> "threw", applied |-> FALSE, error |-> error]

\* reviewChangesInDetail has not been called
NotReviewed ==
    [called |-> FALSE, before |-> <<>>, answers |-> <<>>, diffs |-> <<>>, after |-> <<>>]

\* what parseAiResponse makes of a reply: whether it holds context operations, file
\* operations and response entries
Reply(context, file, response) == [context |-> context, file |-> file, response |-> response]

\* the reply the conversation loop handed on: to handleFinalResponse, to saveAiHistory,
\* or none
HandedOn(handler, response) == [handler |-> handler, response |-> response]

\* an autoContext.maxRounds the configuration file does not set, and one it sets
Unset == [set |-> FALSE, value |-> 0]
Configured(n) == [set |-> TRUE, value |-> n]

\* processRequest has not been called
GatherIdle ==
    /\ autoContextEnabled = FALSE
    /\ maxRoundsSetting = Unset
    /\ round = 0
    /\ aiCalls = 0
    /\ allResponses = 0
    /\ lastReply = Reply(FALSE, FALSE, FALSE)
    /\ finalResponse = HandedOn("none", 0)
    /\ gatherPc = "idle"

\* reviewAndExecutePlan holds no object
AliasIdle ==
    /\ heap = <<>>
    /\ arrays = <<>>
    /\ passed = <<>>
    /\ current = 0
    /\ executed = 0
    /\ cycles = 0
    /\ aliasPc = "idle"

OuterIdle == GatherIdle /\ AliasIdle

\* handleFinalResponse has not been called
ReviewIdle ==
    /\ rvOperations = <<>>
    /\ autoApply = FALSE
    /\ rvPc = "idle"
    /\ currentOperations = <<>>
    /\ applied = FALSE
    /\ rounds = 0
    /\ rvLog = <<>>
    /\ rvResult = ReviewPending
    /\ lastReview = NotReviewed
    /\ callerBackup = [q \in {} |-> <<>>]
    /\ history = <<>>

\* the reachability validator has not been called
NotValidated == [mode |-> "none", threw |-> FALSE, isValid |-> TRUE, errors |-> <<>>]

InitReach ==
    /\ rops = <<>>
    /\ rresult = NotValidated

InitExec ==
    /\ plan \in Plans
    /\ pc = "start"
    /\ idx = 1
    /\ backupTodo = <<>>
    /\ fileOriginalContents = EmptyMap
    /\ executionResults = <<>>
    /\ failedOperations = <<>>
    /\ successfulOps = 0
    /\ failedOps = 0
    /\ calls = <<>>
    /\ fs0 = fs
    /\ callerView = Pending

Init ==
    /\ fs \in Disks(ExecContents)
    /\ dirs \in DirsFor(fs)
    /\ ignoredFiles = {}
    /\ unreadable = {}
    /\ InitExec
    /\ InitReach
    /\ ParserSideIdle
    /\ ReviewIdle
    /\ OuterIdle

\* lines 42-47: collect filesToBackup
CollectBackups ==
    /\ pc = "start"
    /\ backupTodo' = FilesToBackup(plan)
    /\ pc' = "backup"
    /\ UNCHANGED <<outerVars, reviewVars, envVars, reachVars, parserSideVars, plan, idx, fileOriginalContents, executionResults,
                   failedOperations, successfulOps, failedOps, calls, fs0, callerView>>

\* lines 50-57: read one file of filesToBackup; a file that cannot be read is skipped
BackupFile ==
    /\ pc = "backup"
    /\ backupTodo # <<>>
    /\ LET filePath == Head(backupTodo) IN
       fileOriginalContents' =
           IF Exists(fs, filePath) /\ filePath \notin unreadable
           THEN WriteTo(fileOriginalContents, filePath, fs[filePath])
           ELSE fileOriginalContents
    /\ backupTodo' = Tail(backupTodo)
    /\ UNCHANGED <<outerVars, reviewVars, envVars, reachVars, parserSideVars, plan, pc, idx, executionResults,
                   failedOperations, successfulOps, failedOps, calls, fs0, callerView>>

\* lines 62-81: the schema check, then the loop's variables
Validate ==
    /\ pc = "backup"
    /\ backupTodo = <<>>
    /\ IF ValidationThrows(plan)
       THEN /\ callerView' = Thrown("invalid operations", Len(validateOperations(plan).errors))
            /\ pc' = "done"
       ELSE /\ callerView' = callerView
            /\ pc' = "exec"
    /\ UNCHANGED <<outerVars, reviewVars, envVars, reachVars, parserSideVars, plan, idx, backupTodo, fileOriginalContents,
                   executionResults, failedOperations, successfulOps, failedOps, calls, fs0>>

\* lines 83-134: one iteration of the loop
ExecOp ==
    /\ pc = "exec"
    /\ idx <= Len(plan)
    /\ \E fault \in Faults :
         LET op == plan[idx]
             out == Dispatch(op, fs, dirs, fault)
         IN /\ fs' = out.fs
            /\ dirs' = out.dirs
            /\ calls' = IF PrimitiveFor(op) = "" THEN calls
                        ELSE Append(calls, [primitive |-> PrimitiveFor(op), index |-> idx,
                                            fault |-> fault])
            /\ executionResults' =
                   Append(executionResults,
                          [operation |-> op, success |-> ~out.threw, error |-> out.error])
            /\ IF out.threw
               THEN /\ failedOperations' =
                           Append(failedOperations, [operation |-> op, error |-> out.error])
                    /\ failedOps' = failedOps + 1
                    /\ successfulOps' = successfulOps
                    /\ idx' = IndexAfterFailure(idx, Len(plan))
               ELSE /\ successfulOps' = successfulOps + 1
                    /\ idx' = idx + 1
                    /\ UNCHANGED <<failedOperations, failedOps>>
    /\ UNCHANGED <<outerVars, reviewVars, ignoredFiles, unreadable, reachVars, parserSideVars, plan, pc, backupTodo,
                   fileOriginalContents, fs0, callerView>>

\* lines 136-155: throw the aggregate error, or return the result
Finish ==
    /\ pc = "exec"
    /\ idx > Len(plan)
    /\ callerView' =
           IF ThrowsIncomplete(failedOps)
           THEN Thrown("incomplete", failedOps)
           ELSE Returned(Result(executionResults, fileOriginalContents,
                                successfulOps, failedOps, failedOperations))
    /\ pc' = "done"
    /\ UNCHANGED <<outerVars, reviewVars, envVars, reachVars, parserSideVars, plan, idx, backupTodo, fileOriginalContents,
                   executionResults, failedOperations, successfulOps, failedOps, calls, fs0>>

Next == CollectBackups \/ BackupFile \/ Validate \/ ExecOp \/ Finish

Spec == Init /\ [][Next]_vars

----------------------------------------------------------------------------
(* The reachability validator on its own: a disk, then one call            *)

ReachAlphabet == {"o", LF, CR}

\* every text over alphabet of length at most n
Texts(alphabet, n) == UNION {[1..k -> alphabet] : k \in 0..n}

\* a.txt is absent or holds any text; d/b.txt is absent or holds "hi"
ReachDisks ==
    {f \in UNION {[D -> Texts(ReachAlphabet, MaxStrLen) \cup {T_hi}] : D \in SUBSET Files} :
        /\ FileA \in DOMAIN f => f[FileA] # T_hi
        /\ FileB \in DOMAIN f => f[FileB] = T_hi}

Paths == Files \cup {""}

\* the operations given to the single check: every variant with every path, present
\* or missing, every find text, an unknown type and null
ReachOps ==
    {CreateOp(p, T_hi) : p \in Paths}
    \cup {EditOp(p, T_hi, f) : p \in Paths, f \in Texts(ReachAlphabet, MaxFindLen)}
    \cup {MoveOp(old, new) : old \in Paths, new \in Paths}
    \cup {DeleteOp(p) : p \in Paths}
    \cup {WriteWithReplaceOp(FileA, T_hi, <<>>), NullOp}

\* the operations batches are built from
BatchOps ==
    {CreateOp(FileA, T_hi), EditOp(FileA, T_hi, <<"o">>), MoveOp(FileA, FileB),
     DeleteOp(FileB), WriteWithReplaceOp(FileA, T_hi, <<>>)}

Batches == UNION {[1..n -> BatchOps] : n \in 0..MaxBatch}

CallerIdle ==
    /\ plan = <<>>
    /\ pc = "idle"
    /\ idx = 1
    /\ backupTodo = <<>>
    /\ fileOriginalContents = EmptyMap
    /\ executionResults = <<>>
    /\ failedOperations = <<>>
    /\ successfulOps = 0
    /\ failedOps = 0
    /\ calls = <<>>
    /\ fs0 = fs
    /\ callerView = Pending

InitReachSpec ==
    /\ fs \in ReachDisks
    /\ dirs \in DirsFor(fs)
    /\ ignoredFiles \in SUBSET {FileA}
    /\ unreadable \in SUBSET ({FileA} \cap DOMAIN fs)
    /\ CallerIdle
    /\ InitReach
    /\ ParserSideIdle
    /\ ReviewIdle
    /\ OuterIdle

CurrentEnv == Env(fs, dirs, ignoredFiles, unreadable)

WithMode(mode, r) ==
    [mode |-> mode, threw |-> r.threw, isValid |-> r.isValid, errors |-> r.errors]

\* a call of OperationValidator.validateOperationReachability
CheckOne ==
    /\ rresult.mode = "none"
    /\ \E op \in ReachOps :
         /\ rops' = <<op>>
         /\ rresult' = WithMode("one", validateOperationReachability(op, CurrentEnv))
    /\ UNCHANGED <<outerVars, reviewVars, envVars, execVars, parserSideVars>>

\* a call of OperationValidator.validateOperationsReachability
CheckBatch ==
    /\ rresult.mode = "none"
    /\ \E operations \in Batches :
         /\ rops' = operations
         /\ rresult' = WithMode("batch", validateOperationsReachability(operations, CurrentEnv))
    /\ UNCHANGED <<outerVars, reviewVars, envVars, execVars, parserSideVars>>

NextReach == CheckOne \/ CheckBatch

SpecReach == InitReachSpec /\ [][NextReach]_vars

----------------------------------------------------------------------------
(* Delimiter escaping (core/operation-definitions.ts)                      *)

\* longest content given to escapeDelimiters
MaxEscLen == 5

BACKSLASH == "\\"
ESCAPE_PREFIX == <<BACKSLASH>>
T_DashesSpace == <<"-", "-", "-", " ">>
T_SpaceDashes == <<" ", "-", "-", "-">>

\* the characters ^ and $ of a regular expression with the m flag take as line breaks
IsLineTerminator(c) == c \in {LF, CR}

\* ^ matches before position i of s
AtLineStart(s, i) == i = 1 \/ IsLineTerminator(s[i - 1])

\* $ matches before position i of s
AtLineEnd(s, i) == i > Len(s) \/ IsLineTerminator(s[i])

MatchesAt(s, i, pat) ==
    i + Len(pat) - 1 <= Len(s) /\ SubSeq(s, i, i + Len(pat) - 1) = pat

\* String.prototype.replace with a global regular expression that matches the literal
\* text pat, anchored with ^ (atStart) or $ (atEnd): s from position i on, every match
\* from left to right replaced
RECURSIVE ReplaceAllFrom(_, _, _, _, _, _)
ReplaceAllFrom(s, i, pat, rep, atStart, atEnd) ==
    IF i > Len(s) THEN <<>>
    ELSE IF /\ MatchesAt(s, i, pat)
            /\ atStart => AtLineStart(s, i)
            /\ atEnd => AtLineEnd(s, i + Len(pat))
    THEN rep \o ReplaceAllFrom(s, i + Len(pat), pat, rep, atStart, atEnd)
    ELSE <<s[i]>> \o ReplaceAllFrom(s, i + 1, pat, rep, atStart, atEnd)

ReplaceAll(s, pat, rep, atStart, atEnd) == ReplaceAllFrom(s, 1, pat, rep, atStart, atEnd)

\* content.replace(/^--- /gm, '\\--- ').replace(/ ---$/gm, ' ---\\')
escapeDelimiters(content) ==
    ReplaceAll(ReplaceAll(content, T_DashesSpace, ESCAPE_PREFIX \o T_DashesSpace, TRUE, FALSE),
               T_SpaceDashes, T_SpaceDashes \o ESCAPE_PREFIX, FALSE, TRUE)

\* the text the pattern new RegExp(`^${ESCAPE_PREFIX}--- `, 'gm') matches after ^: the
\* pattern's source is ^\--- , in which \- is an identity escape that stands for the
\* character - itself, so the backslash is not part of what is matched
UnescapeStartPattern == T_DashesSpace

\* the text the pattern new RegExp(` ---${ESCAPE_PREFIX}$`, 'gm') matches: its source
\* is  ---\$ , in which \$ stands for the character $ and no end anchor is left
UnescapeEndPattern == T_SpaceDashes \o <<"$">>

unescapeDelimiters(content) ==
    ReplaceAll(ReplaceAll(content, UnescapeStartPattern, T_DashesSpace, TRUE, FALSE),
               UnescapeEndPattern, T_SpaceDashes, FALSE, FALSE)

EscAlphabet == {"-", " ", BACKSLASH, "$", LF}

\* a content is escaped and the result unescaped
EscapeThenUnescape ==
    /\ ~escOutput.done
    /\ \E content \in Texts(EscAlphabet, MaxEscLen) :
         /\ escInput' = content
         /\ escOutput' = [done |-> TRUE, escaped |-> escapeDelimiters(content),
                          restored |-> unescapeDelimiters(escapeDelimiters(content))]
    /\ UNCHANGED <<outerVars, reviewVars, envVars, execVars, reachVars, parseVars, fixVars>>

\* nothing has been called yet, on an empty disk
InitEscape ==
    /\ fs = EmptyMap
    /\ dirs = {RootDir}
    /\ ignoredFiles = {}
    /\ unreadable = {}
    /\ CallerIdle
    /\ InitReach
    /\ ParserSideIdle
    /\ ReviewIdle
    /\ OuterIdle

NextEscape == EscapeThenUnescape

SpecEscape == InitEscape /\ [][NextEscape]_vars

----------------------------------------------------------------------------
(* The response parser (core/ai-response-parser.ts).  Here a text is the   *)
(* sequence of its lines, i.e. what text.split('\n') gives: it is never    *)
(* empty, and the empty string is the one empty line.  A field of a parsed *)
(* operation that holds <<>> is a field that was never set.                *)

L_OpStart == "--- OPERATION start ---"
L_OpEnd == "--- OPERATION end ---"
L_ContentStart == "--- content start ---"
L_ContentEnd == "--- content end ---"
L_FindStart == "--- find start ---"
L_FindEnd == "--- find end ---"
L_LooseEnd == "--- end ---"
L_LooseEndContent == "--- end content ---"
L_TypeResponse == "type: response"
L_TypeDelete == "type: delete"
L_FilePathA == "filePath: a.txt"
L_FilePathB == "filePath: d/b.txt"
L_Hello == "hello"
L_Blank == ""
L_Spaces == "  "
\* the one line of a JSON document
L_Json == "[...]"

\* String.prototype.trim of a line
Trim(line) == IF line = L_Spaces THEN L_Blank ELSE line

\* startDelimiterRegex.exec(line)[1], "" when the line does not match
StartKey(line) ==
    CASE line = L_OpStart -> "OPERATION"
      [] line = L_ContentStart -> "content"
      [] line = L_FindStart -> "find"
      [] OTHER -> ""

\* endDelimiterRegex.exec(line)[1], "" when the line does not match
EndKey(line) ==
    CASE line = L_OpEnd -> "OPERATION"
      [] line = L_ContentEnd -> "content"
      [] line = L_FindEnd -> "find"
      [] OTHER -> ""

\* the text before the first colon of a line, trimmed; "" when there is no colon
\* after the first character
ParamKey(line) ==
    CASE line \in {L_TypeResponse, L_TypeDelete} -> "type"
      [] line \in {L_FilePathA, L_FilePathB} -> "filePath"
      [] OTHER -> ""

\* the text after the first colon of a line, trimmed
ParamValue(line) ==
    CASE line = L_TypeResponse -> "response"
      [] line = L_TypeDelete -> "delete"
      [] line = L_FilePathA -> FileA
      [] line = L_FilePathB -> FileB
      [] OTHER -> ""

\* String.prototype.toLowerCase of a key
ToLowerCase(key) == IF key = "OPERATION" THEN "operation" ELSE key

\* toAbsolutePath: a relative path resolved against the working directory
toAbsolutePath(relativePath) ==
    CASE relativePath = FileA -> "/repo/a.txt"
      [] relativePath = FileB -> "/repo/d/b.txt"
      [] OTHER -> relativePath

\* lines.join('\n'): no line at all gives the empty string
JoinLines(lines) == IF lines = <<>> THEN <<L_Blank>> ELSE lines

\* !text.trim(): the text holds white space only
IsBlankText(text) == \A i \in 1..Len(text) : Trim(text[i]) = L_Blank

\* text.trim(): the blank lines at both ends go, and the first and the last line
\* left are trimmed
TrimText(text) ==
    IF IsBlankText(text) THEN <<L_Blank>>
    ELSE LET first == CHOOSE i \in 1..Len(text) :
                          Trim(text[i]) # L_Blank /\ \A j \in 1..(i - 1) : Trim(text[j]) = L_Blank
             last == CHOOSE i \in 1..Len(text) :
                         Trim(text[i]) # L_Blank
                         /\ \A j \in (i + 1)..Len(text) : Trim(text[j]) = L_Blank
         IN [k \in 1..(last - first + 1) |->
                IF k = 1 \/ k = last - first + 1 THEN Trim(text[first + k - 1])
                ELSE text[first + k - 1]]

\* the operation object parseSingleOperationBlock starts from: no field set
EmptyOperation == Op("", "", "", "", <<>>, <<>>)

\* the locals of parseSingleOperationBlock, with threw/error for an exception and
\* autoClosed for the keys of the sub-blocks closed for want of an end marker
BlockState(operation, currentContentKey, contentLines, autoClosed) ==
    [threw |-> FALSE, error |-> "", operation |-> operation,
     currentContentKey |-> currentContentKey, contentLines |-> contentLines,
     autoClosed |-> autoClosed]

BlockThrows(st, error) == [st EXCEPT !.threw = TRUE, !.error = error]

\* operation[currentContentKey.toLowerCase()] = contentLines.join('\n')
CloseContent(st) ==
    [st.operation EXCEPT ![ToLowerCase(st.currentContentKey)] = JoinLines(st.contentLines)]

\* a start marker inside an open sub-block, in loose mode, that forgets the lines
\* captured so far
OnNestedStart_DropsLines(st, looseMode) ==
    IF looseMode
    THEN BlockState([st.operation EXCEPT ![ToLowerCase(st.currentContentKey)] = <<L_Blank>>],
                    st.currentContentKey, <<>>, Append(st.autoClosed, st.currentContentKey))
    ELSE BlockThrows(st, "nested start delimiter")

\* lines 173-188: a start marker met while currentContentKey is set
OnNestedStart(st, looseMode) ==
    IF looseMode
    THEN BlockState(CloseContent(st), st.currentContentKey, <<>>,
                    Append(st.autoClosed, st.currentContentKey))
    ELSE BlockThrows(st, "nested start delimiter")

\* lines 218-246: a line outside any sub-block read as key: value
ParseParam(st, trimmedLine) ==
    LET key == ParamKey(trimmedLine)
        value == ParamValue(trimmedLine)
    IN IF key = "" THEN st
       ELSE IF key \in {"filePath", "oldPath", "newPath"}
       THEN [st EXCEPT !.operation[key] = toAbsolutePath(value)]
       ELSE IF value # "" THEN [st EXCEPT !.operation[key] = value]
       ELSE st

\* lines 167-247: the body of the loop over the lines of the block
ParseLine(st, line, looseMode) ==
    LET trimmedLine == Trim(line) IN
    IF StartKey(trimmedLine) # ""
    THEN LET closed == IF st.currentContentKey # "" THEN OnNestedStart(st, looseMode)
                       ELSE st
         IN IF closed.threw THEN closed
            ELSE [closed EXCEPT !.currentContentKey = StartKey(trimmedLine)]
    ELSE IF st.currentContentKey # ""
    THEN IF \/ EndKey(trimmedLine) = st.currentContentKey
            \/ (looseMode /\ trimmedLine = L_LooseEnd)
            \/ (looseMode /\ trimmedLine = L_LooseEndContent)
         THEN BlockState(CloseContent(st), "", <<>>, st.autoClosed)
         ELSE [st EXCEPT !.contentLines = Append(st.contentLines, line)]
    ELSE IF trimmedLine # L_Blank THEN ParseParam(st, trimmedLine)
    ELSE st

\* the loop over the lines from line i on; an exception leaves it
RECURSIVE ParseLinesFrom(_, _, _, _)
ParseLinesFrom(st, lines, i, looseMode) ==
    IF i > Len(lines) \/ st.threw THEN st
    ELSE ParseLinesFrom(ParseLine(st, lines[i], looseMode), lines, i + 1, looseMode)

\* a sub-block still open at the end of the block that is closed whatever the mode
OnUnterminatedContent_AlwaysLoose(st, looseMode) ==
    BlockState(CloseContent(st), st.currentContentKey, st.contentLines,
               Append(st.autoClosed, st.currentContentKey))

\* lines 255-267: a sub-block still open when the lines of the block are used up
OnUnterminatedContent(st, looseMode) ==
    IF looseMode
    THEN BlockState(CloseContent(st), st.currentContentKey, st.contentLines,
                    Append(st.autoClosed, st.currentContentKey))
    ELSE BlockThrows(st, "unclosed content block")

\* [threw, error, operation, autoClosed]
parseSingleOperationBlock(blockContent, looseMode) ==
    LET st == ParseLinesFrom(BlockState(EmptyOperation, "", <<>>, <<>>),
                             blockContent, 1, looseMode)
        final == IF st.threw THEN st
                 ELSE IF st.operation.type = "" THEN BlockThrows(st, "missing type")
                 ELSE IF st.currentContentKey # "" THEN OnUnterminatedContent(st, looseMode)
                 ELSE st
    IN [threw |-> final.threw, error |-> final.error,
        operation |-> IF final.threw THEN EmptyOperation ELSE final.operation,
        autoClosed |-> final.autoClosed]

\* the locals of findOperationBlocks
ScanState(validBlocks, currentBlock, inOperationBlock) ==
    [validBlocks |-> validBlocks, currentBlock |-> currentBlock,
     inOperationBlock |-> inOperationBlock]

\* a start marker that leaves the lines collected so far in the block
BlockAfterStart_KeepsLines(st) == st.currentBlock

\* lines 288-296: currentBlock after an OPERATION start marker, inside a block or not
BlockAfterStart(st) == <<>>

\* lines 284-318: the body of the loop over the lines of the response
ScanLine(st, line) ==
    LET trimmedLine == Trim(line) IN
    IF trimmedLine = L_OpStart
    THEN ScanState(st.validBlocks, BlockAfterStart(st), TRUE)
    ELSE IF trimmedLine = L_OpEnd
    THEN IF ~st.inOperationBlock THEN st
         ELSE LET blockContent == JoinLines(st.currentBlock) IN
              ScanState(IF IsBlankText(blockContent) THEN st.validBlocks
                        ELSE Append(st.validBlocks, blockContent),
                        <<>>, FALSE)
    ELSE IF st.inOperationBlock
    THEN ScanState(st.validBlocks, Append(st.currentBlock, line), TRUE)
    ELSE st

RECURSIVE ScanLinesFrom(_, _, _)
ScanLinesFrom(st, lines, i) ==
    IF i > Len(lines) THEN st
    ELSE ScanLinesFrom(ScanLine(st, lines[i]), lines, i + 1)

\* the end of the input that makes a block of the lines of an open block
BlocksAtEndOfInput_Salvage(st) ==
    IF st.inOperationBlock /\ ~IsBlankText(JoinLines(st.currentBlock))
    THEN Append(st.validBlocks, JoinLines(st.currentBlock))
    ELSE st.validBlocks

\* lines 320-325: what findOperationBlocks returns when the lines are used up
BlocksAtEndOfInput(st) == st.validBlocks

findOperationBlocks(response) ==
    BlocksAtEndOfInput(ScanLinesFrom(ScanState(<<>>, <<>>, FALSE), response, 1))

\* OperationValidator.validateOperation on a parsed operation: the schema check, in
\* which content is required of a response, a create and an edit
validateParsedOperation(operation) ==
    /\ validateOperation(operation)
    /\ operation.type \in {"response", "create", "edit"} => operation.content # <<>>

\* the loop of parseDelimitedOperations that gives up at the first bad block
NextBlockAfterFailure_Abort(i, n) == n + 1

\* lines 353-375: the block the loop goes on with after a block that failed
NextBlockAfterFailure(i, n) == i + 1

\* the loop of parseDelimitedOperations from block i on: [operations, errors, failed,
\* blocks], failed being the indices of the blocks skipped
RECURSIVE DelimitedFrom(_, _, _, _)
DelimitedFrom(blocks, i, shouldValidate, looseMode) ==
    IF i > Len(blocks)
    THEN [operations |-> <<>>, errors |-> 0, failed |-> {}, blocks |-> blocks]
    ELSE IF IsBlankText(blocks[i])
    THEN DelimitedFrom(blocks, i + 1, shouldValidate, looseMode)
    ELSE LET r == parseSingleOperationBlock(blocks[i], looseMode)
             bad == r.threw \/ (shouldValidate /\ ~validateParsedOperation(r.operation))
             next == IF bad THEN NextBlockAfterFailure(i, Len(blocks)) ELSE i + 1
             rest == DelimitedFrom(blocks, next, shouldValidate, looseMode)
         IN IF bad
            THEN [rest EXCEPT !.errors = @ + 1, !.failed = @ \cup {i}]
            ELSE [rest EXCEPT !.operations = <<r.operation>> \o @]

parseDelimitedOperations(response, shouldValidate, looseMode) ==
    DelimitedFrom(findOperationBlocks(response), 1, shouldValidate, looseMode)

\* what tryParseAsJson does with a SyntaxError of JSON5.parse, were it passed on
OnJsonSyntaxError_Throws == [threw |-> TRUE, error |-> "JSON syntax error", operations |-> <<>>]

\* lines 421-426: a SyntaxError of JSON5.parse is a format mismatch and gives no operation
OnJsonSyntaxError == [threw |-> FALSE, error |-> "", operations |-> <<>>]

\* [threw, error, operations]
tryParseAsJson(response) ==
    IF response.shape = "text" THEN [threw |-> FALSE, error |-> "", operations |-> <<>>]
    ELSE IF response.json5 = "SyntaxError" THEN OnJsonSyntaxError
    ELSE IF response.decoded = <<>>
    THEN [threw |-> FALSE, error |-> "", operations |-> <<>>]
    ELSE IF ~validateOperations(response.decoded).isValid
    THEN [threw |-> TRUE, error |-> "JSON validation failed", operations |-> <<>>]
    ELSE [threw |-> FALSE, error |-> "", operations |-> response.decoded]

ParseOutcome(mode, operations, errors, failed, blocks, jsonError, trimmed) ==
    [done |-> TRUE, threw |-> FALSE, error |-> "", mode |-> mode, operations |-> operations,
     errors |-> errors, failed |-> failed, blocks |-> blocks, jsonError |-> jsonError,
     autoClosed |-> <<>>, trimmed |-> trimmed]

parseAiResponse(response, shouldValidate, looseMode) ==
    LET trimmed == TrimText(response.lines) IN
    IF IsBlankText(trimmed) THEN ParseOutcome("empty", <<>>, 0, {}, <<>>, "", trimmed)
    ELSE LET json == tryParseAsJson(response) IN
         IF ~json.threw /\ Len(json.operations) > 0
         THEN ParseOutcome("json", json.operations, 0, {}, <<>>, "", trimmed)
         ELSE LET delimitedOps == parseDelimitedOperations(trimmed, shouldValidate, looseMode)
              IN ParseOutcome("delimited", delimitedOps.operations, delimitedOps.errors,
                              delimitedOps.failed, delimitedOps.blocks, json.error,
                              trimmed)

\* most pieces a response text is put together from
MaxPieces == 3
\* most lines of a block given to parseSingleOperationBlock
MaxBlockLines == 4
\* longest array of operations a JSON response decodes to
MaxDecoded == 2

\* the body of a delete with its path
DeleteBody == <<L_TypeDelete, L_FilePathA>>

\* the bodies of operation blocks: a response with its content, a delete with its
\* path, a delete without path (fails the schema), a path without type, a response
\* whose content sub-block is never closed, and one whose content sub-block is cut
\* short by the start of a find sub-block
Bodies ==
    {<<L_TypeResponse, L_ContentStart, L_Hello, L_ContentEnd>>,
     DeleteBody,
     <<L_TypeDelete>>,
     <<L_FilePathA>>,
     <<L_TypeResponse, L_ContentStart, L_Hello>>,
     <<L_TypeResponse, L_ContentStart, L_Hello, L_FindStart, L_Hello, L_FindEnd>>}

\* what response texts are put together from: a marker, a stray line, the lines of a
\* delete, or a body between its markers
Pieces ==
    {<<L_OpStart>>, <<L_OpEnd>>, <<L_Hello>>, DeleteBody}
    \cup {<<L_OpStart>> \o b \o <<L_OpEnd>> : b \in Bodies}

RECURSIVE Flatten(_)
Flatten(pieces) == IF pieces = <<>> THEN <<>> ELSE Head(pieces) \o Flatten(Tail(pieces))

ResponseTexts ==
    {JoinLines(Flatten(ps)) : ps \in UNION {[1..n -> Pieces] : n \in 0..MaxPieces}}

\* the operations a JSON response decodes to: two valid ones, one with an empty
\* filePath and one of a type outside the schema
JsonOps ==
    {Op("response", "", "", "", T_hi, <<>>), DeleteOp(FileA), CreateOp("", T_hi),
     Op("invalid", "", "", "", <<>>, <<>>)}

TextResponse(lines) ==
    [shape |-> "text", json5 |-> "SyntaxError", decoded |-> <<>>, lines |-> lines]

\* the responses given to parseAiResponse: texts that do not look like JSON; texts
\* that begin like a JSON array or object but are not JSON; JSON arrays, and JSON
\* objects (one operation)
Responses ==
    {TextResponse(t) : t \in ResponseTexts}
    \cup {[shape |-> sh, json5 |-> "SyntaxError", decoded |-> <<>>, lines |-> <<L_Json>> \o p] :
             sh \in {"array", "object"}, p \in Pieces}
    \cup {[shape |-> "array", json5 |-> "value", decoded |-> d, lines |-> <<L_Json>>] :
             d \in UNION {[1..n -> JsonOps] : n \in 0..MaxDecoded}}
    \cup {[shape |-> "object", json5 |-> "value", decoded |-> <<o>>, lines |-> <<L_Json>>] :
             o \in JsonOps}

\* the lines of the parser's alphabet that begin with "--- " and end with " ---"
DelimiterLooking ==
    {L_OpStart, L_OpEnd, L_ContentStart, L_ContentEnd, L_FindStart, L_FindEnd, L_LooseEnd,
     L_LooseEndContent}

\* escapeDelimiters on one line: the prefix goes before a leading "--- " and after a
\* trailing " ---"
EscapeLine(line) == IF line \in DelimiterLooking THEN "\\" \o line \o "\\" ELSE line

\* escapeDelimiters on a text given as its lines (the m flag: line by line)
EscapeLines(text) == [k \in 1..Len(text) |-> EscapeLine(text[k])]

\* the block an emitter writes for a response whose content is text
EmittedBlock(text) == <<L_TypeResponse, L_ContentStart>> \o EscapeLines(text) \o <<L_ContentEnd>>

BlockAlphabet ==
    {L_TypeResponse, L_ContentStart, L_ContentEnd, L_FindStart, L_LooseEnd, L_Hello, L_Blank,
     EscapeLine(L_ContentEnd)}

\* the block contents given to parseSingleOperationBlock
BlockContents == UNION {[1..n -> BlockAlphabet] : n \in 1..MaxBlockLines}

\* a call of parseSingleOperationBlock
ParseBlock ==
    /\ ~parseResult.done
    /\ \E blockContent \in BlockContents, looseMode \in BOOLEAN :
         LET r == parseSingleOperationBlock(blockContent, looseMode) IN
         /\ parseCall' = [fn |-> "parseSingleOperationBlock",
                          response |-> TextResponse(blockContent),
                          shouldValidate |-> FALSE, looseMode |-> looseMode]
         /\ parseResult' = [done |-> TRUE, threw |-> r.threw, error |-> r.error,
                            mode |-> "block",
                            operations |-> IF r.threw THEN <<>> ELSE <<r.operation>>,
                            errors |-> 0, failed |-> {}, blocks |-> <<>>,
                            jsonError |-> "", autoClosed |-> r.autoClosed,
                            trimmed |-> blockContent]
    /\ UNCHANGED <<outerVars, reviewVars, envVars, execVars, reachVars, escVars, fixVars>>

\* a call of parseAiResponse
ParseResponse ==
    /\ ~parseResult.done
    /\ \E response \in Responses, shouldValidate \in BOOLEAN, looseMode \in BOOLEAN :
         /\ parseCall' = [fn |-> "parseAiResponse", response |-> response,
                          shouldValidate |-> shouldValidate, looseMode |-> looseMode]
         /\ parseResult' = parseAiResponse(response, shouldValidate, looseMode)
    /\ UNCHANGED <<outerVars, reviewVars, envVars, execVars, reachVars, escVars, fixVars>>

InitParse == InitEscape

NextParse == ParseBlock \/ ParseResponse

SpecParse == InitParse /\ [][NextParse]_vars

----------------------------------------------------------------------------
(* autoFixOperations (core/plan-fixer.ts)                                  *)

\* largest maxRetries a caller passes explicitly
MaxRetriesArg == 2
\* the value of maxRetries when the caller passes none
DefaultMaxRetries == 3

\* the failedOps arguments: one failed delete, or one failed writeWithReplace, whose
\* file autoFixOperations reads for the prompt
FailedOpsArgs ==
    {<<[operation |-> DeleteOp(FileA), error |-> "file does not exist"]>>,
     <<[operation |-> WriteWithReplaceOp(FileA, T_bar, T_foo), error |-> "find text not found"]>>}

\* the files whose content goes into the prompt: those of the writeWithReplace
\* operations that can be read
FilesInPrompt(failed, env) ==
    {failed[i].operation.filePath : i \in
        {k \in 1..Len(failed) :
            /\ failed[k].operation.type = "writeWithReplace"
            /\ failed[k].operation.filePath \in DOMAIN env.fs
            /\ failed[k].operation.filePath \notin env.unreadable}}

Message(role, about) == [role |-> role, about |-> about]

\* what the model answers: text without any operation, a block holding a response, or
\* JSON that decodes to a delete, a create, a response and a delete, an edit, or an
\* operation the schema rejects
FixResponses ==
    {TextResponse(<<L_Hello>>),
     TextResponse(<<L_OpStart, L_TypeResponse, L_ContentStart, L_Hello, L_ContentEnd, L_OpEnd>>)}
    \cup {[shape |-> "array", json5 |-> "value", decoded |-> d, lines |-> <<L_Json>>] :
             d \in {<<DeleteOp(FileA)>>,
                    <<CreateOp(FileA, T_hi)>>,
                    <<Op("response", "", "", "", T_hi, <<>>), DeleteOp(FileA)>>,
                    <<EditOp(FileA, T_bar, T_foo)>>,
                    <<Op("invalid", "", "", "", <<>>, <<>>)>>}}

\* a call of streamAiResponse throws, or resolves to a response
ModelReplies ==
    {[threw |-> TRUE, response |-> NoResponse]}
    \cup {[threw |-> FALSE, response |-> r] : r \in FixResponses}

\* the loop that makes one attempt more than maxRetries
AttemptAllowed_OneMore(n, limit) == n <= limit + 1

\* line 91: the condition of the loop, attempt <= maxRetries
AttemptAllowed(n, limit) == n <= limit

\* the loop that gives up all the attempts left once a pass has failed
AttemptAfterFailure_Abort(n, limit) == limit + 1

\* lines 91, 100 and 126-132: a pass that ended with continue, with the end of the
\* body or in the catch block is followed by attempt++
AttemptAfterFailure(n, limit) == n + 1

\* the pass that validates and returns the parsed operations, responses included
OutcomeOfOperations_KeepsResponses(fixedOps, env) ==
    IF Len(fixedOps) = 0
    THEN [outcome |-> "no operations", fileOps |-> <<>>, fixedOps |-> fixedOps]
    ELSE LET validation == validateOperationsReachability(fixedOps, env) IN
         [outcome |-> IF validation.threw THEN "threw"
                      ELSE IF validation.isValid THEN "valid" ELSE "invalid",
          fileOps |-> fixedOps, fixedOps |-> fixedOps]

FixReturned(operations) == [status |-> "returned", operations |-> operations]
FixNull == [status |-> "null", operations |-> <<>>]

\* lines 107-133: the pass ends with the outcome of the reachability validation
OutcomeOfValidation(validation, fileOps) ==
    IF validation.threw THEN [outcome |-> "threw", fileOps |-> <<>>]
    ELSE IF validation.isValid THEN [outcome |-> "valid", fileOps |-> fileOps]
    ELSE [outcome |-> "invalid", fileOps |-> fileOps]

\* line 96: the pass with the operations parseAiResponse gave
WithParsed(fixedOps, o) ==
    [outcome |-> o.outcome, fileOps |-> o.fileOps, fixedOps |-> fixedOps]

\* lines 107-108: the operations that are not of type response go to the validation
OutcomeOfFileOps(fileOps, env) ==
    OutcomeOfValidation(validateOperationsReachability(fileOps, env), fileOps)

\* lines 98-105: no operation parsed ends the pass; the response entries are filtered out
OutcomeOfOperations(fixedOps, env) ==
    IF Len(fixedOps) = 0
    THEN [outcome |-> "no operations", fileOps |-> <<>>, fixedOps |-> fixedOps]
    ELSE WithParsed(fixedOps,
                    OutcomeOfFileOps(SelectSeq(fixedOps, LAMBDA op : op.type # "response"),
                                     env))

\* what one pass of the loop body comes to for a reply of the model: outcome is
\* "threw" (caught by the catch block), "no operations", "invalid" or "valid"
AttemptOutcome(reply, env) ==
    IF reply.threw THEN [outcome |-> "threw", fileOps |-> <<>>, fixedOps |-> <<>>]
    ELSE OutcomeOfOperations(parseAiResponse(reply.response, TRUE, FALSE).operations, env)

InitFix ==
    /\ fs \in {EmptyMap, [q \in {FileA} |-> T_foobaz]}
    /\ dirs = {RootDir}
    /\ ignoredFiles = {}
    /\ unreadable = {}
    /\ CallerIdle
    /\ InitReach
    /\ EscIdle
    /\ ParseIdle
    /\ ReviewIdle
    /\ OuterIdle
    /\ failedOpsArg \in FailedOpsArgs
    /\ maxRetries \in (0..MaxRetriesArg) \cup {DefaultMaxRetries}
    /\ fixPc = "start"
    /\ attempt = 0
    /\ messages = <<>>
    /\ modelCalls = <<>>
    /\ fixResult = FixPending

\* lines 62-89: the contexts, the two prompts and the conversation
BuildPrompt ==
    /\ fixPc = "start"
    /\ messages' = <<Message("system", {}),
                     Message("user", FilesInPrompt(failedOpsArg, CurrentEnv))>>
    /\ attempt' = 1
    /\ fixPc' = "loop"
    /\ UNCHANGED <<outerVars, reviewVars, envVars, execVars, reachVars, escVars, parseVars, failedOpsArg, maxRetries,
                   modelCalls, fixResult>>

\* lines 91-133: one pass of the loop
Attempt ==
    /\ fixPc = "loop"
    /\ AttemptAllowed(attempt, maxRetries)
    /\ \E reply \in ModelReplies : \E a \in {AttemptOutcome(reply, CurrentEnv)} :
         /\ modelCalls' = Append(modelCalls, [attempt |-> attempt, reply |-> reply,
                                               fixedOps |-> a.fixedOps,
                                               outcome |-> a.outcome])
         /\ IF a.outcome = "valid"
            THEN /\ fixResult' = FixReturned(a.fileOps)
                 /\ fixPc' = "done"
                 /\ UNCHANGED <<attempt, messages>>
            ELSE /\ messages' = IF a.outcome = "invalid"
                                THEN messages \o <<Message("assistant", {}), Message("user", {})>>
                                ELSE messages
                 /\ attempt' = AttemptAfterFailure(attempt, maxRetries)
                 /\ UNCHANGED <<fixResult, fixPc>>
    /\ UNCHANGED <<outerVars, reviewVars, envVars, execVars, reachVars, escVars, parseVars, failedOpsArg, maxRetries>>

\* lines 135-136: the loop is over
GiveUp ==
    /\ fixPc = "loop"
    /\ ~AttemptAllowed(attempt, maxRetries)
    /\ fixResult' = FixNull
    /\ fixPc' = "done"
    /\ UNCHANGED <<outerVars, reviewVars, envVars, execVars, reachVars, escVars, parseVars, failedOpsArg, maxRetries,
                   attempt, messages, modelCalls>>

NextFix == BuildPrompt \/ Attempt \/ GiveUp

SpecFix == InitFix /\ [][NextFix]_vars

----------------------------------------------------------------------------
(* The plan reviewer (core/plan-reviewer.ts) and its caller                *)
(* handleFinalResponse (core/main-processor.ts).  executePlan runs as the  *)
(* actions of Spec between CallExecutePlan and AfterExecutePlan.           *)

\* passes of the review loop followed in one call of reviewAndExecutePlan
MaxRounds == 3

\* the file operations handleFinalResponse is given
ReviewPlans ==
    {<<>>,
     <<CreateOp(FileA, T_hi)>>,
     <<DeleteOp(FileA)>>,
     <<EditOp(FileA, T_bar, T_foo)>>,
     <<WriteWithReplaceOp(FileA, T_bar, T_foo)>>,
     <<CreateOp(FileA, T_hi), CreateOp(FileB, T_hi)>>,
     <<CreateOp(FileB, T_hi), DeleteOp(FileA)>>}

\* the plans a call of autoFixOperations can come back with
FixedPlans == {<<>>, <<CreateOp(FileA, T_hi)>>, <<DeleteOp(FileA)>>}

\* autoFixOperations seen from its caller: null, or operations that passed the
\* reachability validation on the disk as it is
AutoFixOutcomes(env) ==
    {FixNull} \cup
    {FixReturned(p) : p \in {q \in FixedPlans : validateOperationsReachability(q, env).isValid}}

\* what the user does with a diff: closes it unchanged, saves a text, or the viewer
\* cannot be started
DiffNull == [kind |-> "null", text |-> <<>>]
DiffSaved(text) == [kind |-> "saved", text |-> text]
DiffThrew == [kind |-> "threw", text |-> <<>>]
DiffAnswers == {DiffNull, DiffSaved(T_bar), DiffSaved(T_hi), DiffThrew}

\* showDiffInVsCode: the text read back is returned only when it differs from newContent
showDiffInVsCode(originalContent, newContent, answer) ==
    IF answer.kind = "saved" /\ answer.text = newContent THEN DiffNull ELSE answer

DiffShown(op, originalContent, newContent) ==
    [filePath |-> op.filePath, type |-> op.type,
     original |-> originalContent, new |-> newContent]

Reviewed(ops, diffs) == [operations |-> ops, diffs |-> diffs]

\* lines 120-144 and 183-206: the user saved a text; the updated operation replaces
\* the original when it passes the schema check
OnDiffSaved(op, updatedOp) ==
    IF validateOperation(updatedOp) THEN <<updatedOp>> ELSE <<op>>

\* lines 145-154: the diff of a create came back null; originalContentForDiff is ''
\* in this branch, so the operation is not pushed
OnCreateDiffNull(op, originalContentForDiff) ==
    IF originalContentForDiff # <<>> THEN <<op>> ELSE <<>>

\* lines 103-162: a create operation
ReviewCreate(op, shown) ==
    Reviewed(CASE shown.kind = "threw" -> <<op>>
               [] shown.kind = "saved" -> OnDiffSaved(op, [op EXCEPT !.content = shown.text])
               [] OTHER -> OnCreateDiffNull(op, <<>>),
             <<DiffShown(op, <<>>, op.content)>>)

\* lines 177-210: the diff of a writeWithReplace operation and what follows it
ReviewReplaced(op, originalContent, fullNewContent, shown) ==
    Reviewed(CASE shown.kind = "threw" -> <<op>>
               [] shown.kind = "saved" ->
                    OnDiffSaved(op, [op EXCEPT !.content = shown.text, !.find = <<>>])
               [] OTHER -> <<op>>,
             <<DiffShown(op, originalContent, fullNewContent)>>)

\* lines 171-175: replaceInFile throws into the catch block, which keeps the operation
ReviewAfterReplace(op, originalContent, replaced, answer) ==
    IF replaced.threw THEN Reviewed(<<op>>, <<>>)
    ELSE ReviewReplaced(op, originalContent, replaced.value,
                        showDiffInVsCode(originalContent, replaced.value, answer))

\* lines 163-218: a writeWithReplace operation; readFile throws for a missing file
ReviewWriteWithReplace(op, env, answer) ==
    IF ~Exists(env.fs, op.filePath) \/ op.filePath \in env.unreadable
    THEN Reviewed(<<op>>, <<>>)
    ELSE ReviewAfterReplace(op, env.fs[op.filePath],
                            replaceInFile(env.fs[op.filePath], op.content, op.find), answer)

\* lines 102-222: the body of the loop over the operations
ReviewOperation(op, env, answer) ==
    CASE op.type = "create" -> ReviewCreate(op, showDiffInVsCode(<<>>, op.content, answer))
      [] op.type = "writeWithReplace" -> ReviewWriteWithReplace(op, env, answer)
      [] OTHER -> Reviewed(<<op>>, <<>>)

ReviewedAppend(head, rest) ==
    Reviewed(head.operations \o rest.operations, head.diffs \o rest.diffs)

RECURSIVE ReviewFrom(_, _, _, _)
ReviewFrom(operations, env, answers, i) ==
    IF i > Len(operations) THEN Reviewed(<<>>, <<>>)
    ELSE ReviewedAppend(ReviewOperation(operations[i], env, answers[i]),
                        ReviewFrom(operations, env, answers, i + 1))

\* reviewChangesInDetail: operations that fail the schema check are returned as they are
reviewChangesInDetail(operations, env, answers) ==
    IF ~validateOperations(operations).isValid THEN Reviewed(operations, <<>>)
    ELSE ReviewFrom(operations, env, answers, 1)

\* handleFinalResponse lines 448-461: the content of the files of the edit and delete
\* operations that can be read
CallerBackup(operations, env) ==
    [q \in {operations[i].filePath : i \in
               {k \in 1..Len(operations) :
                   /\ operations[k].type \in {"edit", "delete"}
                   /\ Exists(env.fs, operations[k].filePath)
                   /\ operations[k].filePath \notin env.unreadable}}
       |-> env.fs[q]]

\* an entry of the log: a prompt shown to the user, or a call of a collaborator with
\* the plan it was given (executePlan) or came back with (autoFixOperations)
Event(kind, name, result, operations) ==
    [kind |-> kind, name |-> name, result |-> result, plan |-> operations]
Prompt(name) == Event("prompt", name, "", <<>>)
\* a confirm prompt of inquirer and the answer the user gave
Confirm(name, answer) == Event("prompt", name, IF answer THEN "yes" ELSE "no", <<>>)
ExecuteCall(operations) == Event("call", "executePlan", "", operations)
AutoFixCall(fix) == Event("call", "autoFixOperations", fix.status, fix.operations)

\* the call executePlan(currentOperations, ...): the state of Spec at its start
CallExecutePlan(operations) ==
    /\ plan' = operations
    /\ pc' = "start"
    /\ idx' = 1
    /\ backupTodo' = <<>>
    /\ fileOriginalContents' = EmptyMap
    /\ executionResults' = <<>>
    /\ failedOperations' = <<>>
    /\ successfulOps' = 0
    /\ failedOps' = 0
    /\ calls' = <<>>
    /\ fs0' = fs
    /\ callerView' = Pending

\* reviewAndExecutePlan is over: it returned { applied } or threw
ReviewEnds(outcome) ==
    /\ rvResult' = outcome
    /\ applied' = outcome.applied
    /\ rvPc' = "ended"

InitReview ==
    /\ fs \in {EmptyMap, [q \in {FileA} |-> T_foobaz]}
    /\ dirs = {RootDir}
    /\ ignoredFiles = {}
    /\ unreadable = {}
    /\ CallerIdle
    /\ InitReach
    /\ ParserSideIdle
    /\ OuterIdle
    /\ rvOperations \in ReviewPlans
    /\ autoApply \in BOOLEAN
    /\ rvPc = "caller"
    /\ currentOperations = <<>>
    /\ applied = FALSE
    /\ rounds = 0
    /\ rvLog = <<>>
    /\ rvResult = ReviewPending
    /\ lastReview = NotReviewed
    /\ callerBackup = EmptyMap
    /\ history = <<>>

\* handleFinalResponse lines 446-469: the backup map, then the call of the reviewer
\* when there is a file operation
HandleFinalResponse ==
    /\ rvPc = "caller"
    /\ callerBackup' = CallerBackup(rvOperations, CurrentEnv)
    /\ rvPc' = IF Len(rvOperations) > 0 THEN "entry" ELSE "finished"
    /\ UNCHANGED <<outerVars, envVars, execVars, reachVars, parserSideVars, rvOperations, autoApply,
                   currentOperations, applied, rounds, rvLog, rvResult, lastReview, history>>

\* the autoApply branch without its reachability validation
AutoApplyError_SkipsReachability(schema, reachability) ==
    IF ~schema.isValid THEN "invalid operations" ELSE ""

\* lines 295-318: the two validations of the autoApply branch; "" when both pass
AutoApplyError(schema, reachability) ==
    IF ~schema.isValid THEN "invalid operations"
    ELSE IF reachability.threw THEN "reachability validation threw"
    ELSE IF ~reachability.isValid THEN "unreachable operations"
    ELSE ""

\* lines 269-336 up to the call of executePlan: the empty plan, the copy, and with
\* autoApply the two validations
EnterReviewer ==
    /\ rvPc = "entry"
    /\ currentOperations' = rvOperations
    /\ IF Len(rvOperations) = 0
       THEN /\ ReviewEnds(ReviewReturned(FALSE))
            /\ UNCHANGED <<execVars, rvLog>>
       ELSE IF autoApply
       THEN \E error \in {AutoApplyError(validateOperations(rvOperations),
                                          validateOperationsReachability(rvOperations,
                                                                         CurrentEnv))} :
              IF error # ""
              THEN /\ ReviewEnds(ReviewThrew(error))
                   /\ UNCHANGED <<execVars, rvLog>>
              ELSE /\ CallExecutePlan(rvOperations)
                   /\ rvLog' = Append(rvLog, ExecuteCall(rvOperations))
                   /\ rvPc' = "executing"
                   /\ UNCHANGED <<applied, rvResult>>
       ELSE /\ rvPc' = "displaying"
            /\ UNCHANGED <<execVars, applied, rvLog, rvResult>>
    /\ UNCHANGED <<outerVars, envVars, reachVars, parserSideVars, rvOperations, autoApply, rounds,
                   lastReview, callerBackup, history>>

ApplyStep(next, operations, log) == [next |-> next, operations |-> operations, log |-> log]

\* the apply branch that runs the plan auto-fix returned without showing it
ApplyUnreachable_ExecutesFix(operations, log, tryAutoFix, fix, forceApply) ==
    IF tryAutoFix /\ fix.status = "returned"
    THEN ApplyStep("execute", fix.operations, log \o <<Prompt("tryAutoFix"), AutoFixCall(fix)>>)
    ELSE ApplyStep(IF forceApply THEN "execute" ELSE "break", operations,
                   log \o <<Prompt("tryAutoFix")>>
                       \o (IF tryAutoFix THEN <<AutoFixCall(fix)>> ELSE <<>>)
                       \o <<Confirm("forceApply:unreachable", forceApply)>>)

\* lines 385-423: the plan is unreachable; the auto-fix offer, then the force-apply
\* confirmation
ApplyUnreachable(operations, log, tryAutoFix, fix, forceApply) ==
    IF tryAutoFix /\ fix.status = "returned"
    THEN ApplyStep("break", fix.operations,
                   log \o <<Prompt("tryAutoFix"), AutoFixCall(fix)>>)
    ELSE ApplyStep(IF forceApply THEN "execute" ELSE "break", operations,
                   log \o <<Prompt("tryAutoFix")>>
                       \o (IF tryAutoFix THEN <<AutoFixCall(fix)>> ELSE <<>>)
                       \o <<Confirm("forceApply:unreachable", forceApply)>>)

\* lines 380-423: the reachability validation of the apply branch
ApplyAfterSchema(operations, reachability, log, tryAutoFix, fix, forceApply) ==
    IF reachability.threw THEN ApplyStep("throw", operations, log)
    ELSE IF reachability.isValid THEN ApplyStep("execute", operations, log)
    ELSE ApplyUnreachable(operations, log, tryAutoFix, fix, forceApply)

\* the apply branch that goes on to the reachability validation whatever the answer
\* to the confirmation asked for a schema failure
ApplyDecision_IgnoresAnswer(operations, env, forceInvalid, tryAutoFix, fix, forceApply) ==
    IF validateOperations(operations).isValid
    THEN ApplyAfterSchema(operations, validateOperationsReachability(operations, env),
                          <<>>, tryAutoFix, fix, forceApply)
    ELSE ApplyAfterSchema(operations, validateOperationsReachability(operations, env),
                          <<Confirm("forceApply:invalid", forceInvalid)>>,
                          tryAutoFix, fix, forceApply)

\* lines 364-423: the apply branch up to the call of executePlan
ApplyDecision(operations, env, forceInvalid, tryAutoFix, fix, forceApply) ==
    IF validateOperations(operations).isValid
    THEN ApplyAfterSchema(operations, validateOperationsReachability(operations, env),
                          <<>>, tryAutoFix, fix, forceApply)
    ELSE IF ~forceInvalid
    THEN ApplyStep("break", operations, <<Confirm("forceApply:invalid", forceInvalid)>>)
    ELSE ApplyAfterSchema(operations, validateOperationsReachability(operations, env),
                          <<Confirm("forceApply:invalid", forceInvalid)>>,
                          tryAutoFix, fix, forceApply)

\* lines 344-358: the list prompt of one pass of the loop
ChoicePrompt ==
    /\ rvPc = "displaying"
    /\ rounds < MaxRounds
    /\ rounds' = rounds + 1

\* case 'apply', lines 359-428
ChooseApply ==
    /\ ChoicePrompt
    /\ IF Len(currentOperations) = 0
       THEN /\ ReviewEnds(ReviewReturned(FALSE))
            /\ rvLog' = Append(rvLog, Prompt("choice"))
            /\ UNCHANGED <<execVars, currentOperations>>
       ELSE \E forceInvalid \in BOOLEAN, tryAutoFix \in BOOLEAN, forceApply \in BOOLEAN,
               fix \in AutoFixOutcomes(CurrentEnv) :
            \E step \in {ApplyDecision(currentOperations, CurrentEnv, forceInvalid,
                                       tryAutoFix, fix, forceApply)} :
              /\ currentOperations' = step.operations
              /\ CASE step.next = "break" ->
                         /\ rvLog' = Append(rvLog, Prompt("choice")) \o step.log
                         /\ UNCHANGED <<execVars, rvPc, applied, rvResult>>
                   [] step.next = "throw" ->
                         /\ rvLog' = Append(rvLog, Prompt("choice")) \o step.log
                         /\ ReviewEnds(ReviewThrew("reachability validation threw"))
                         /\ UNCHANGED execVars
                   [] OTHER ->
                         /\ rvLog' = Append(rvLog, Prompt("choice")) \o step.log
                                         \o <<ExecuteCall(step.operations)>>
                         /\ CallExecutePlan(step.operations)
                         /\ rvPc' = "executing"
                         /\ UNCHANGED <<applied, rvResult>>
    /\ UNCHANGED <<outerVars, envVars, reachVars, parserSideVars, rvOperations, autoApply, lastReview,
                   callerBackup, history>>

\* case 'review', lines 467-479
ChooseReview ==
    /\ ChoicePrompt
    /\ rvLog' = Append(rvLog, Prompt("choice"))
    /\ IF Len(currentOperations) = 0
       THEN UNCHANGED <<currentOperations, lastReview, rvPc, applied, rvResult>>
       ELSE \E answers \in [1..Len(currentOperations) -> DiffAnswers] :
            \E r \in {reviewChangesInDetail(currentOperations, CurrentEnv, answers)} :
              /\ currentOperations' = r.operations
              /\ lastReview' = [called |-> TRUE, before |-> currentOperations,
                                answers |-> answers, diffs |-> r.diffs,
                                after |-> r.operations]
              /\ IF Len(r.operations) = 0
                 THEN ReviewEnds(ReviewReturned(FALSE))
                 ELSE UNCHANGED <<rvPc, applied, rvResult>>
    /\ UNCHANGED <<outerVars, envVars, execVars, reachVars, parserSideVars, rvOperations, autoApply,
                   callerBackup, history>>

\* case 'export', lines 481-484: the plan is written to a file of the user's choice,
\* which is none of the files of the plan
ChooseExport ==
    /\ ChoicePrompt
    /\ rvLog' = Append(rvLog, Prompt("choice")) \o <<Prompt("fileName")>>
    /\ UNCHANGED <<outerVars, envVars, execVars, reachVars, parserSideVars, rvOperations, autoApply,
                   rvPc, currentOperations, applied, rvResult, lastReview, callerBackup,
                   history>>

\* case 'cancel', lines 486-489, and the return after the loop
ChooseCancel ==
    /\ ChoicePrompt
    /\ rvLog' = Append(rvLog, Prompt("choice"))
    /\ ReviewEnds(ReviewReturned(FALSE))
    /\ UNCHANGED <<outerVars, envVars, execVars, reachVars, parserSideVars, rvOperations, autoApply,
                   currentOperations, lastReview, callerBackup, history>>

\* lines 430-453: executePlan returned a result that lists failed operations
OnFailedOperations(operations, tryFix, fix) ==
    IF tryFix /\ fix.status = "returned"
    THEN ApplyStep("break", fix.operations, <<Prompt("tryFix"), AutoFixCall(fix)>>)
    ELSE ApplyStep("throw", operations,
                   <<Prompt("tryFix")>> \o (IF tryFix THEN <<AutoFixCall(fix)>> ELSE <<>>))

\* the caller that swallows the Error of executePlan
ExecutionThrew_Swallowed(view) == FALSE

\* lines 327-332 and 457-463: executePlan threw and the catch block is entered
ExecutionThrew(view) == view.status = "threw"

\* lines 425-463 in the loop, lines 321-335 with autoApply: what follows the call of
\* executePlan.  An Error thrown by executePlan is caught, logged and thrown again.
AfterExecutePlan ==
    /\ rvPc = "executing"
    /\ pc = "done"
    /\ IF ExecutionThrew(callerView)
       THEN /\ ReviewEnds(ReviewThrew(callerView.errorKind))
            /\ UNCHANGED <<currentOperations, rvLog>>
       ELSE IF ~autoApply /\ Len(callerView.result.failedOperations) > 0
       THEN \E tryFix \in BOOLEAN, fix \in AutoFixOutcomes(CurrentEnv) :
            \E step \in {OnFailedOperations(currentOperations, tryFix, fix)} :
              /\ rvLog' = rvLog \o step.log
              /\ currentOperations' = step.operations
              /\ IF step.next = "break"
                 THEN /\ rvPc' = "displaying"
                      /\ UNCHANGED <<applied, rvResult>>
                 ELSE ReviewEnds(ReviewThrew("operations failed"))
       ELSE /\ ReviewEnds(ReviewReturned(TRUE))
            /\ UNCHANGED <<currentOperations, rvLog>>
    /\ UNCHANGED <<outerVars, envVars, execVars, reachVars, parserSideVars, rvOperations, autoApply,
                   rounds, lastReview, callerBackup, history>>

\* the entry saveAiHistory is given: the operations and the map of handleFinalResponse
HistoryEntry(operations, originals) ==
    [operations |-> operations, fileOriginalContents |-> originals]

\* handleFinalResponse lines 470-480: the history entry, written when applied is true
SaveHistory ==
    /\ rvPc = "ended"
    /\ history' = IF rvResult.status = "returned" /\ rvResult.applied
                  THEN Append(history, HistoryEntry(rvOperations, callerBackup))
                  ELSE history
    /\ rvPc' = "finished"
    /\ UNCHANGED <<outerVars, envVars, execVars, reachVars, parserSideVars, rvOperations, autoApply,
                   currentOperations, applied, rounds, rvLog, rvResult, lastReview,
                   callerBackup>>

NextReview ==
    \/ HandleFinalResponse \/ EnterReviewer
    \/ ChooseApply \/ ChooseReview \/ ChooseExport \/ ChooseCancel
    \/ CollectBackups \/ BackupFile \/ Validate \/ ExecOp \/ Finish
    \/ AfterExecutePlan \/ SaveHistory

SpecReview == InitReview /\ [][NextReview]_vars

----------------------------------------------------------------------------
(* main-processor.ts: the two conversation loops of processRequest.  One   *)
(* action is one pass of the while loop; the reply of the model, whether   *)
(* callAi throws and whether executeContextOperations throws are inputs.   *)

\* the default of autoContext.maxRounds among the configuration fields
DefaultConfigMaxRounds == 10
\* the value processWithInformationGathering uses for a falsy setting
FallbackMaxRounds == 2
\* the maxRounds of processWithoutAutoContext
PlainMaxRounds == 3
\* largest autoContext.maxRounds a configuration file sets
MaxConfiguredRounds == 3

Replies == {Reply(c, f, r) : c \in BOOLEAN, f \in BOOLEAN, r \in BOOLEAN}

\* getNestedConfig('autoContext.maxRounds'): the value of the configuration file, and
\* without one the value of DEFAULT_CONFIG
getNestedConfig(setting) == IF setting.set THEN setting.value ELSE DefaultConfigMaxRounds

\* the local maxRounds of the loop: line 246 with auto-context, line 340 without
maxRounds(enabled, setting) ==
    IF ~enabled THEN PlainMaxRounds
    ELSE IF getNestedConfig(setting) = 0 THEN FallbackMaxRounds
    ELSE getNestedConfig(setting)

InitGather ==
    /\ fs = EmptyMap
    /\ dirs = {RootDir}
    /\ ignoredFiles = {}
    /\ unreadable = {}
    /\ CallerIdle
    /\ InitReach
    /\ ParserSideIdle
    /\ ReviewIdle
    /\ AliasIdle
    /\ autoContextEnabled \in BOOLEAN
    /\ maxRoundsSetting \in {Unset} \cup {Configured(n) : n \in 1..MaxConfiguredRounds}
    /\ round = 0
    /\ aiCalls = 0
    /\ allResponses = 0
    /\ lastReply = Reply(FALSE, FALSE, FALSE)
    /\ finalResponse = HandedOn("none", 0)
    /\ gatherPc = "loop"

\* lines 268-314: what processWithInformationGathering does with a reply
OnGatheredReply(reply, gatherThrows, index) ==
    IF reply.context /\ ~gatherThrows
    THEN /\ UNCHANGED <<finalResponse, gatherPc>>
    ELSE /\ finalResponse' = IF reply.file \/ reply.response
                             THEN HandedOn("handleFinalResponse", index)
                             ELSE finalResponse
         /\ gatherPc' = "done"

\* lines 357-413: what processWithoutAutoContext does with a reply
OnPlainReply(reply, gatherThrows, index) ==
    IF reply.context /\ ~gatherThrows
    THEN /\ UNCHANGED <<finalResponse, gatherPc>>
    ELSE /\ finalResponse' = IF reply.file THEN HandedOn("handleFinalResponse", index)
                             ELSE IF reply.response /\ ~reply.context
                             THEN HandedOn("saveAiHistory", index)
                             ELSE finalResponse
         /\ gatherPc' = "done"

\* one pass of the while loop of either function: round++, callAi, and the reply
ConversationRound(enabled) ==
    /\ round < maxRounds(enabled, maxRoundsSetting)
    /\ round' = round + 1
    /\ aiCalls' = aiCalls + 1
    /\ \E callThrows \in BOOLEAN, reply \in Replies, gatherThrows \in BOOLEAN :
         IF callThrows
         THEN /\ gatherPc' = "done"
              /\ UNCHANGED <<allResponses, lastReply, finalResponse>>
         ELSE /\ allResponses' = allResponses + 1
              /\ lastReply' = reply
              /\ IF enabled THEN OnGatheredReply(reply, gatherThrows, allResponses + 1)
                 ELSE OnPlainReply(reply, gatherThrows, allResponses + 1)
    /\ UNCHANGED <<envVars, execVars, reachVars, parserSideVars, reviewVars, aliasVars,
                   autoContextEnabled, maxRoundsSetting>>

\* processWithInformationGathering, lines 254-315
InformationGatheringRound ==
    /\ gatherPc = "loop"
    /\ autoContextEnabled
    /\ ConversationRound(TRUE)

\* processWithoutAutoContext, lines 345-414
WithoutAutoContextRound ==
    /\ gatherPc = "loop"
    /\ ~autoContextEnabled
    /\ ConversationRound(FALSE)

\* processWithInformationGathering, lines 317-329: the loop ran out of rounds
InformationGatheringExhausted ==
    /\ gatherPc = "loop"
    /\ autoContextEnabled
    /\ round >= maxRounds(TRUE, maxRoundsSetting)
    /\ finalResponse' = IF allResponses > 0
                        THEN HandedOn("handleFinalResponse", allResponses)
                        ELSE finalResponse
    /\ gatherPc' = "done"
    /\ UNCHANGED <<envVars, execVars, reachVars, parserSideVars, reviewVars, aliasVars,
                   autoContextEnabled, maxRoundsSetting, round, aiCalls, allResponses,
                   lastReply>>

\* processWithoutAutoContext, lines 416-435: the loop ran out of rounds
WithoutAutoContextExhausted ==
    /\ gatherPc = "loop"
    /\ ~autoContextEnabled
    /\ round >= maxRounds(FALSE, maxRoundsSetting)
    /\ finalResponse' = IF allResponses > 0 /\ (lastReply.file \/ lastReply.response)
                        THEN HandedOn("handleFinalResponse", allResponses)
                        ELSE finalResponse
    /\ gatherPc' = "done"
    /\ UNCHANGED <<envVars, execVars, reachVars, parserSideVars, reviewVars, aliasVars,
                   autoContextEnabled, maxRoundsSetting, round, aiCalls, allResponses,
                   lastReply>>

NextGather ==
    \/ InformationGatheringRound \/ WithoutAutoContextRound
    \/ InformationGatheringExhausted \/ WithoutAutoContextExhausted

SpecGather == InitGather /\ [][NextGather]_vars

----------------------------------------------------------------------------
(* plan-reviewer.ts and plan-executor.ts: which objects hold the plan.  An  *)
(* operation object is a position in heap, an array is a position in       *)
(* arrays; array 1 is the array the caller passed and objects              *)
(* 1..Len(passed) are its operations.                                      *)

\* longest run of review and auto-fix cycles of one reviewAndExecutePlan call
MaxCycles == 2

\* the plan an array holds
Deref(objects, refs) == [i \in 1..Len(refs) |-> objects[refs[i]]]

\* a new array of the objects refs (an array literal, push, map)
NewArray(refs) == Append(arrays, refs)

\* an assignment where the code spreads: the same object under a second name
Spread_SameObject(objects, id) == [heap |-> objects, id |-> id]

\* { ...op }: a new object with the fields of object id
Spread(objects, id) == [heap |-> Append(objects, objects[id]), id |-> Len(objects) + 1]

\* lines 122-126 and 185-187: const updatedOp = { ...op, content: editedContent },
\* and for a writeWithReplace delete updatedOp.find
UpdatedOp(objects, id, text, deleteFind) ==
    LET s == Spread(objects, id) IN
    [heap |-> [s.heap EXCEPT ![s.id] =
                  [@ EXCEPT !.content = text, !.find = IF deleteFind THEN <<>> ELSE @]],
     id |-> s.id]

\* what the review of one operation pushes to reviewedOperations
Pushed(objects, refs) == [heap |-> objects, refs |-> refs]

\* lines 102-222: the body of the loop of reviewChangesInDetail for object id
ReviewObject(objects, id, answer) ==
    IF objects[id].type \in {"create", "writeWithReplace"} /\ answer = "saved"
    THEN LET u == UpdatedOp(objects, id, T_bar, objects[id].type = "writeWithReplace") IN
         Pushed(u.heap, IF validateOperation(u.heap[u.id]) THEN <<u.id>> ELSE <<id>>)
    ELSE IF objects[id].type = "create" /\ answer = "null"
    THEN Pushed(objects, <<>>)
    ELSE Pushed(objects, <<id>>)

RECURSIVE ReviewObjectsFrom(_, _, _, _)
ReviewObjectsFrom(objects, refs, answers, i) ==
    IF i > Len(refs) THEN Pushed(objects, <<>>)
    ELSE LET head == ReviewObject(objects, refs[i], answers[i])
             rest == ReviewObjectsFrom(head.heap, refs, answers, i + 1)
         IN Pushed(rest.heap, head.refs \o rest.refs)

\* operations.map((op) => ({ ...op })) from element i on
RECURSIVE SpreadFrom(_, _, _)
SpreadFrom(objects, refs, i) ==
    IF i > Len(refs) THEN Pushed(objects, <<>>)
    ELSE LET head == Spread(objects, refs[i])
             rest == SpreadFrom(head.heap, refs, i + 1)
         IN Pushed(rest.heap, <<head.id>> \o rest.refs)

InitAlias ==
    /\ fs = EmptyMap
    /\ dirs = {RootDir}
    /\ ignoredFiles = {}
    /\ unreadable = {}
    /\ CallerIdle
    /\ InitReach
    /\ ParserSideIdle
    /\ ReviewIdle
    /\ GatherIdle
    /\ passed \in ReviewPlans \ {<<>>}
    /\ heap = passed
    /\ arrays = <<[i \in 1..Len(passed) |-> i]>>
    /\ current = 0
    /\ executed = 0
    /\ cycles = 0
    /\ aliasPc = "entry"

\* reviewAndExecutePlan line 273: let currentOperations = [...operations]
CopyOperations ==
    /\ aliasPc = "entry"
    /\ arrays' = NewArray(arrays[1])
    /\ current' = Len(arrays) + 1
    /\ aliasPc' = "loop"
    /\ UNCHANGED <<envVars, execVars, reachVars, parserSideVars, reviewVars, gatherVars,
                   heap, passed, executed, cycles>>

\* case 'review', line 471: currentOperations = await reviewChangesInDetail(...);
\* reviewChangesInDetail returns its argument when the schema check fails (line 97)
ReviewCycle ==
    /\ aliasPc = "loop"
    /\ cycles < MaxCycles
    /\ cycles' = cycles + 1
    /\ IF ~validateOperations(Deref(heap, arrays[current])).isValid
       THEN UNCHANGED <<heap, arrays, current>>
       ELSE \E answers \in [1..Len(arrays[current]) -> {"null", "saved", "threw"}] :
            \E r \in {ReviewObjectsFrom(heap, arrays[current], answers, 1)} :
              /\ heap' = r.heap
              /\ arrays' = NewArray(r.refs)
              /\ current' = Len(arrays) + 1
    /\ UNCHANGED <<envVars, execVars, reachVars, parserSideVars, reviewVars, gatherVars,
                   passed, executed, aliasPc>>

\* case 'apply', lines 399-409: currentOperations = fixedOps, the array
\* autoFixOperations built from the operations it parsed
AutoFixCycle ==
    /\ aliasPc = "loop"
    /\ cycles < MaxCycles
    /\ cycles' = cycles + 1
    /\ \E fixedOps \in FixedPlans :
         /\ heap' = heap \o fixedOps
         /\ arrays' = NewArray([i \in 1..Len(fixedOps) |-> Len(heap) + i])
         /\ current' = Len(arrays) + 1
    /\ UNCHANGED <<envVars, execVars, reachVars, parserSideVars, reviewVars, gatherVars,
                   passed, executed, aliasPc>>

\* executePlan lines 69-72, called with currentOperations (line 321 with autoApply,
\* line 425 in the loop): executedOperations = operations.map((op) => ({ ...op }))
ExecuteCopy ==
    /\ aliasPc = "loop"
    /\ \E r \in {SpreadFrom(heap, arrays[current], 1)} :
         /\ heap' = r.heap
         /\ arrays' = NewArray(r.refs)
         /\ executed' = Len(arrays) + 1
    /\ aliasPc' = "done"
    /\ UNCHANGED <<envVars, execVars, reachVars, parserSideVars, reviewVars, gatherVars,
                   passed, current, cycles>>

NextAlias == CopyOperations \/ ReviewCycle \/ AutoFixCycle \/ ExecuteCopy

SpecAlias == InitAlias /\ [][NextAlias]_vars

----------------------------------------------------------------------------
(* Claims about executePlan, checked under Spec *)

Failed(i) == ~executionResults[i].success
NoDiskFault == \A k \in 1..Len(calls) : calls[k].fault = "none"

\* C1: if operation i throws and operations 1..i-1 succeeded, then no operation after
\* i is attempted (no primitive is called for one, no result is recorded for one),
\* failedOps is 1 and the one recorded failure is operation i.
C1_StopsAtFirstFailure ==
    \A i \in 1..Len(executionResults) :
        (Failed(i) /\ \A j \in 1..(i - 1) : ~Failed(j)) =>
            /\ Len(executionResults) = i
            /\ \A k \in 1..Len(calls) : calls[k].index <= i
            /\ failedOps = 1
            /\ Len(failedOperations) = 1
            /\ failedOperations[1].operation = plan[i]

\* C2: once the backup phase is over, fileOriginalContents holds, for every edit or
\* delete of the plan on a file that existed when executePlan was called, that file's
\* content at the call; and the disk is untouched until the backup phase is over.
C2_BackupHoldsOriginals ==
    /\ pc \in {"start", "backup"} => fs = fs0
    /\ pc \in {"exec", "done"} =>
           \A i \in 1..Len(plan) :
               (plan[i].type \in {"edit", "delete"} /\ Exists(fs0, plan[i].filePath)) =>
                   /\ plan[i].filePath \in DOMAIN fileOriginalContents
                   /\ fileOriginalContents[plan[i].filePath] = fs0[plan[i].filePath]

\* C3: a plan that fails the schema check never changes the disk: no primitive is
\* called for it, every file keeps its content, and the call ends by throwing the
\* validation error.
C3_InvalidPlanNoMutation ==
    ~validateOperations(plan).isValid =>
        /\ calls = <<>>
        /\ fs = fs0
        /\ executionResults = <<>>
        /\ pc = "done" => callerView.status = "threw"
                          /\ callerView.errorKind = "invalid operations"

\* a plan with an invalid operation and a create that would have made a new file has
\* been rejected
C3_Witness ==
    /\ pc = "done"
    /\ callerView.errorKind = "invalid operations"
    /\ \E i \in 1..Len(plan) :
           plan[i].type = "create" /\ plan[i].filePath # ""
           /\ ~Exists(fs, plan[i].filePath)
    /\ \E i \in 1..Len(plan) : plan[i].type = "writeWithReplace"

\* C4: executePlan ends by throwing the aggregate error exactly when at least one
\* operation failed, and the error reports how many failed; it returns only when every
\* operation of the plan succeeded, with failedOps = 0 and successfulOps = their number.
C4_ThrowsIffSomeOperationFailed ==
    pc = "done" =>
        LET nFailed == Cardinality({i \in 1..Len(executionResults) : Failed(i)}) IN
        /\ (callerView.status = "threw" /\ callerView.errorKind = "incomplete")
               <=> nFailed > 0
        /\ callerView.errorKind = "incomplete" => callerView.errorCount = nFailed
        /\ callerView.status = "returned" =>
               /\ nFailed = 0
               /\ Len(executionResults) = Len(plan)
               /\ callerView.result.failedOps = 0
               /\ callerView.result.successfulOps = Len(plan)

\* a plan of which one operation succeeded and another failed has ended with the
\* aggregate error
C4_Witness ==
    /\ pc = "done"
    /\ callerView.status = "threw"
    /\ callerView.errorKind = "incomplete"
    /\ callerView.errorCount = 1
    /\ successfulOps = 1

\* C5: when execution fails partway, the caller holds, next to the error, the partial
\* result: the failed operations and the backed-up contents.
C5_CallerReceivesPartialResult ==
    (pc = "done" /\ callerView.errorKind = "incomplete") =>
        /\ callerView.hasResult
        /\ callerView.result.failedOperations = failedOperations
        /\ callerView.result.executionResults = executionResults
        /\ callerView.result.fileOriginalContents = fileOriginalContents

\* C6: for a.txt holding "foo\nbaz\n" and the plan [edit a.txt, find "foo", content
\* "bar"], reachability validation passes and, the disk not failing, a.txt holds
\* "bar\nbaz\n" once executePlan is over.
C6_EditReplacesTheMatch ==
    (/\ plan = <<EditOp(FileA, T_bar, T_foo)>>
     /\ Exists(fs0, FileA)
     /\ fs0[FileA] = T_foobaz
     /\ NoDiskFault) =>
        /\ validateOperationsReachability(plan, Env(fs0, dirs, {}, {})).isValid
        /\ pc = "done" => Exists(fs, FileA) /\ fs[FileA] = T_barbaz

----------------------------------------------------------------------------
(* Claims about the reachability validator, checked under SpecReach *)

\* the positions at which sub occurs in s
Occurrences(s, sub) ==
    {i \in 1..(Len(s) - Len(sub) + 1) : SubSeq(s, i, i + Len(sub) - 1) = sub}

\* C7: the check of an edit with a find text on an existing, readable file that is not
\* ignored succeeds exactly when find (its line endings adapted to the file's) occurs
\* exactly once in the file; with no occurrence the error says the text was not found,
\* with two or more it names their number.
C7_EditValidIffFindOccursOnce ==
    (/\ rresult.mode = "one"
     /\ rops[1].type = "edit"
     /\ rops[1].find # <<>>
     /\ rops[1].filePath \in DOMAIN fs
     /\ rops[1].filePath \notin ignoredFiles
     /\ rops[1].filePath \notin unreadable) =>
        LET filePath == rops[1].filePath
            content == fs[filePath]
            find == AdaptLineEndings(rops[1].find, LineEndingOf(content))
            n == Cardinality(Occurrences(content, find))
        IN /\ rresult.isValid <=> n = 1
           /\ n = 0 => rresult.errors = <<Err("find text not found", filePath, 0)>>
           /\ n >= 2 => rresult.errors = <<Err("multiple matches", filePath, n)>>

\* C8: for the list [create a.txt, content "hi"] and a disk on which a.txt exists, batch
\* validation is invalid with exactly one error, which belongs to operation 1, names
\* a.txt and says that the file already exists.
C8_CreateOnExistingFileReported ==
    (/\ rresult.mode = "batch"
     /\ rops = <<CreateOp(FileA, T_hi)>>
     /\ Exists(fs, FileA)) =>
        /\ ~rresult.threw
        /\ ~rresult.isValid
        /\ Len(rresult.errors) = 1
        /\ rresult.errors[1].path = FileA
        /\ rresult.errors[1].kind = "file already exists"
        /\ rresult.errors[1].index = 1
        /\ rresult.errors[1].type = "create"

\* the list [create a.txt "hi"] has been validated with a.txt on the disk
C8_Witness ==
    /\ rresult.mode = "batch"
    /\ rops = <<CreateOp(FileA, T_hi)>>
    /\ Exists(fs, FileA)
    /\ ~rresult.isValid

\* C9: the check of a move fails when oldPath or newPath is missing, when the source
\* does not exist, when the directory of newPath does not exist, and when newPath
\* exists already.
C9_MoveFails ==
    (rresult.mode = "one" /\ rops[1].type = "move") =>
        LET op == rops[1] IN
        (\/ op.oldPath = ""
         \/ op.newPath = ""
         \/ ~Exists(fs, op.oldPath)
         \/ DirOf(op.newPath) \notin dirs
         \/ Exists(fs, op.newPath)) =>
            ~rresult.threw /\ ~rresult.isValid /\ rresult.errors # <<>>

\* a move from an existing file onto another existing file has been rejected
C9_Witness ==
    /\ rresult.mode = "one"
    /\ rops[1].type = "move"
    /\ Exists(fs, rops[1].oldPath)
    /\ Exists(fs, rops[1].newPath)
    /\ rops[1].oldPath # rops[1].newPath
    /\ ~rresult.isValid
    /\ rresult.errors[1].kind = "target file already exists"

\* C10: the single check always returns a validation result and never throws; for
\* null, for an unknown type and when reading the file throws, the result is invalid
\* and carries an error.
C10_ReachabilityIsTotal ==
    rresult.mode = "one" =>
        LET op == rops[1]
            readThrows == /\ op.type = "edit"
                          /\ op.find # <<>>
                          /\ op.filePath \in unreadable
                          /\ op.filePath \notin ignoredFiles
        IN /\ ~rresult.threw
           /\ rresult.isValid <=> rresult.errors = <<>>
           /\ (op = NullOp \/ op.type \notin {"create", "edit", "move", "delete"}
                  \/ readThrows) => ~rresult.isValid

\* an exception raised inside the check has come back as an invalid result
C10_Witness ==
    /\ rresult.mode = "one"
    /\ rops[1] = NullOp
    /\ ~rresult.threw
    /\ ~rresult.isValid
    /\ rresult.errors[1].kind = "error while validating reachability"

\* C11: the batch check looks at every operation of the list: an operation that fails
\* its single check has its errors in the result whatever failed before it; every
\* reported error carries the 1-based index of an operation that failed with that
\* error, and that operation's type; errors come in the order of the operations; the
\* result is valid exactly when no operation failed.
C11_BatchChecksEveryOperation ==
    (rresult.mode = "batch" /\ ~rresult.threw) =>
        LET single(i) == validateOperationReachability(rops[i], CurrentEnv)
            failing == {i \in 1..Len(rops) : ~single(i).isValid}
        IN /\ rresult.isValid <=> failing = {}
           /\ \A i \in failing :
                  \E k \in 1..Len(rresult.errors) :
                      /\ rresult.errors[k].index = i
                      /\ rresult.errors[k].type = rops[i].type
                      /\ rresult.errors[k].kind = single(i).errors[1].kind
           /\ \A k \in 1..Len(rresult.errors) :
                  LET e == rresult.errors[k] IN
                  /\ e.index \in failing
                  /\ e.type = rops[e.index].type
                  /\ \E m \in 1..Len(single(e.index).errors) :
                         /\ single(e.index).errors[m].kind = e.kind
                         /\ single(e.index).errors[m].path = e.path
                         /\ single(e.index).errors[m].count = e.count
           /\ \A k \in 1..(Len(rresult.errors) - 1) :
                  rresult.errors[k].index <= rresult.errors[k + 1].index

\* a batch of two operations of different types has been checked and both failed
C11_Witness ==
    /\ rresult.mode = "batch"
    /\ Len(rops) = 2
    /\ rops[1].type # rops[2].type
    /\ Len(rresult.errors) = 2
    /\ rresult.errors[1].index = 1
    /\ rresult.errors[2].index = 2

----------------------------------------------------------------------------
(* Claims about delimiter escaping, checked under SpecEscape *)

\* C12: for every string s, unescapeDelimiters(escapeDelimiters(s)) = s.
C12_EscapeRoundTrip ==
    escOutput.done => escOutput.restored = escInput

----------------------------------------------------------------------------
(* Claims about the response parser, checked under SpecParse *)

CalledParseAiResponse == parseResult.done /\ parseCall.fn = "parseAiResponse"
CalledParseBlock == parseResult.done /\ parseCall.fn = "parseSingleOperationBlock"

\* the response is JSON that decodes to at least one operation
DecodesToOperations ==
    /\ parseCall.response.shape # "text"
    /\ parseCall.response.json5 = "value"
    /\ parseCall.response.decoded # <<>>

\* C13: when the response text parses as JSON and the decoded operations fail the
\* schema check, parseAiResponse ends with an error for its caller.
C13_InvalidJsonSurfacedAsError ==
    (/\ CalledParseAiResponse
     /\ DecodesToOperations
     /\ ~validateOperations(parseCall.response.decoded).isValid)
        => parseResult.threw

\* C14: parseAiResponse never throws.  JSON that decodes to valid operations is
\* returned as decoded.  Text that is not JSON-shaped, text JSON5 rejects with a
\* syntax error, and JSON that decodes to no operation raise nothing, not even inside
\* the parser, and the result is the one of delimited mode on the trimmed text.  Blank
\* input, and text that is not JSON and has no OPERATION start marker, give no
\* operation.
C14_JsonFirstThenDelimited ==
    CalledParseAiResponse =>
        LET r == parseCall.response
            trimmed == TrimText(r.lines)
            notJson == r.shape = "text" \/ r.json5 = "SyntaxError" \/ r.decoded = <<>>
        IN /\ ~parseResult.threw
           /\ (DecodesToOperations /\ validateOperations(r.decoded).isValid) =>
                  parseResult.mode = "json" /\ parseResult.operations = r.decoded
           /\ (notJson /\ ~IsBlankText(r.lines)) =>
                  /\ parseResult.mode = "delimited"
                  /\ parseResult.jsonError = ""
                  /\ parseResult.operations =
                         parseDelimitedOperations(trimmed, parseCall.shouldValidate,
                                                  parseCall.looseMode).operations
           /\ IsBlankText(r.lines) => parseResult.operations = <<>>
           /\ (notJson /\ \A i \in 1..Len(r.lines) : Trim(r.lines[i]) # L_OpStart) =>
                  parseResult.operations = <<>>

\* a text that begins like JSON, is rejected by JSON5 with a syntax error and holds an
\* operation block has been parsed in delimited mode to that block's operation
C14_Witness ==
    /\ CalledParseAiResponse
    /\ parseCall.response.shape = "array"
    /\ parseCall.response.json5 = "SyntaxError"
    /\ parseResult.mode = "delimited"
    /\ Len(parseResult.operations) = 1
    /\ ~parseResult.threw

\* block i of the text parses and, when shouldValidate, passes the schema check
GoodBlock(block) ==
    LET r == parseSingleOperationBlock(block, parseCall.looseMode) IN
    /\ ~r.threw
    /\ parseCall.shouldValidate => validateParsedOperation(r.operation)

\* C15: in delimited mode every block that fails parsing or, when shouldValidate, the
\* schema check is skipped and counted, and the operations returned are those of all
\* the other blocks, in the order of the blocks in the text.
C15_BadBlockNeverAbortsBatch ==
    (CalledParseAiResponse /\ parseResult.mode = "delimited") =>
        LET blocks == parseResult.blocks
            good == SelectSeq([i \in 1..Len(blocks) |-> i], LAMBDA i : GoodBlock(blocks[i]))
        IN /\ ~parseResult.threw
           /\ parseResult.errors = Len(blocks) - Len(good)
           /\ parseResult.failed = {i \in 1..Len(blocks) : ~GoodBlock(blocks[i])}
           /\ parseResult.operations =
                  [k \in 1..Len(good) |->
                      parseSingleOperationBlock(blocks[good[k]], parseCall.looseMode).operation]

\* three blocks of which the second is bad have given the operations of the first and
\* of the third, in that order
C15_Witness ==
    /\ CalledParseAiResponse
    /\ parseResult.mode = "delimited"
    /\ Len(parseResult.blocks) = 3
    /\ parseResult.failed = {2}
    /\ parseResult.errors = 1
    /\ Len(parseResult.operations) = 2
    /\ parseResult.operations[1].type = "response"
    /\ parseResult.operations[2].type = "delete"

\* the lines of the block given to parseSingleOperationBlock
BlockLines == parseCall.response.lines

\* line i of the block is a sub-block start marker
IsSubStart(i) == StartKey(Trim(BlockLines[i])) # ""

\* line k of the block ends a sub-block named key in the mode of the call
ClosesSub(k, key) ==
    \/ EndKey(Trim(BlockLines[k])) = key
    \/ parseCall.looseMode /\ Trim(BlockLines[k]) \in {L_LooseEnd, L_LooseEndContent}

\* the sub-block that line i starts is still open just before line j
OpenFromTo(i, j) ==
    /\ IsSubStart(i)
    /\ \A k \in (i + 1)..(j - 1) :
           ~IsSubStart(k) /\ ~ClosesSub(k, StartKey(Trim(BlockLines[i])))

\* line j is a second start marker inside the sub-block line i starts
NestedStart(i, j) == i < j /\ j <= Len(BlockLines) /\ OpenFromTo(i, j) /\ IsSubStart(j)

\* the block has a type line that no sub-block swallows
TypeLineOutside ==
    \E k \in 1..Len(BlockLines) :
        /\ ParamKey(Trim(BlockLines[k])) = "type"
        /\ \A i \in 1..(k - 1) : ~OpenFromTo(i, k)

\* C16: when a block has a second sub-block start marker inside an open sub-block,
\* strict parsing fails the block with the nested-start error; loose parsing never
\* raises that error, does not throw at all when the block has its type line, records
\* the first sub-block as auto-closed and gives its field the lines captured up to the
\* second marker (unless a later sub-block of the same name sets the field again).
C16_NestedStartLooseAutoCloses ==
    CalledParseBlock =>
        \A i, j \in 1..Len(BlockLines) :
            NestedStart(i, j) =>
                LET key == StartKey(Trim(BlockLines[i])) IN
                IF ~parseCall.looseMode
                THEN parseResult.threw /\ parseResult.error = "nested start delimiter"
                ELSE /\ parseResult.error # "nested start delimiter"
                     /\ TypeLineOutside => ~parseResult.threw
                     /\ ~parseResult.threw =>
                            /\ \E a \in 1..Len(parseResult.autoClosed) :
                                   parseResult.autoClosed[a] = key
                            /\ (\A k \in j..Len(BlockLines) :
                                    StartKey(Trim(BlockLines[k])) # key) =>
                                   parseResult.operations[1][ToLowerCase(key)] =
                                       JoinLines(SubSeq(BlockLines, i + 1, j - 1))

\* a block whose content sub-block holds one line and is cut short by a find start
\* marker has been parsed in loose mode: content is that line
C16_Witness ==
    /\ CalledParseBlock
    /\ parseCall.looseMode
    /\ ~parseResult.threw
    /\ \E i, j \in 1..Len(BlockLines) :
           /\ NestedStart(i, j)
           /\ BlockLines[i] = L_ContentStart
           /\ BlockLines[j] = L_FindStart
           /\ j = i + 2
    /\ parseResult.autoClosed[1] = "content"
    /\ parseResult.operations[1].content = <<L_Hello>>

\* C17: when a sub-block is still open at the end of the block, strict parsing fails
\* the block (with the unclosed-block error when nothing else is wrong with it); loose
\* parsing fails only a block without its type line, and otherwise closes the
\* sub-block: its field holds the lines captured since its start marker.
C17_UnterminatedContentAtEnd ==
    CalledParseBlock =>
        \A i \in 1..Len(BlockLines) :
            OpenFromTo(i, Len(BlockLines) + 1) =>
                LET key == StartKey(Trim(BlockLines[i])) IN
                IF ~parseCall.looseMode
                THEN /\ parseResult.threw
                     /\ (TypeLineOutside /\ \A a, b \in 1..Len(BlockLines) : ~NestedStart(a, b))
                            => parseResult.error = "unclosed content block"
                ELSE /\ parseResult.threw => parseResult.error = "missing type"
                     /\ TypeLineOutside => ~parseResult.threw
                     /\ ~parseResult.threw =>
                            /\ parseResult.autoClosed # <<>>
                            /\ parseResult.autoClosed[Len(parseResult.autoClosed)] = key
                            /\ parseResult.operations[1][ToLowerCase(key)] =
                                   JoinLines(SubSeq(BlockLines, i + 1, Len(BlockLines)))

\* a block that ends inside its content sub-block, two lines captured, has been parsed
\* in loose mode
C17_Witness ==
    /\ CalledParseBlock
    /\ parseCall.looseMode
    /\ ~parseResult.threw
    /\ Len(BlockLines) = 4
    /\ OpenFromTo(2, 5)
    /\ parseResult.autoClosed = <<"content">>
    /\ parseResult.operations[1].content = <<L_Hello, L_Blank>>

\* the text parseAiResponse hands to delimited mode
TrimmedResponse == parseResult.trimmed

IsOpStart(k) == Trim(TrimmedResponse[k]) = L_OpStart
IsOpEnd(k) == Trim(TrimmedResponse[k]) = L_OpEnd

\* line k is inside an operation block: a start marker precedes it with no end marker
\* in between
InsideBlock(k) ==
    \E st \in 1..(k - 1) : IsOpStart(st) /\ \A m \in (st + 1)..(k - 1) : ~IsOpEnd(m)

\* the lines between the end marker at line e and the nearest start marker before it
SinceLastStart(e) ==
    LET st == CHOOSE x \in 1..(e - 1) :
                  IsOpStart(x) /\ \A m \in (x + 1)..(e - 1) : ~IsOpStart(m)
    IN JoinLines(SubSeq(TrimmedResponse, st + 1, e - 1))

\* C18: the blocks found in a text are, for each end marker that closes a block, the
\* lines between that marker and the nearest start marker before it; what was
\* collected before a start marker met inside a block is in no block.
C18_NestedOperationStartDiscards ==
    (CalledParseAiResponse /\ parseResult.mode = "delimited") =>
        LET ends == SelectSeq([k \in 1..Len(TrimmedResponse) |-> k],
                              LAMBDA e : /\ IsOpEnd(e)
                                         /\ InsideBlock(e)
                                         /\ ~IsBlankText(SinceLastStart(e)))
        IN parseResult.blocks = [n \in 1..Len(ends) |-> SinceLastStart(ends[n])]

\* a text with a start marker, a stray line, a second start marker, a delete and an
\* end marker has given the one block of the delete
C18_Witness ==
    /\ CalledParseAiResponse
    /\ parseResult.mode = "delimited"
    /\ \E j \in 1..Len(TrimmedResponse) :
           /\ IsOpStart(j)
           /\ InsideBlock(j)
           /\ ~IsOpStart(j - 1)
    /\ parseResult.blocks = <<DeleteBody>>
    /\ Len(parseResult.operations) = 1

\* the text ends inside an operation block that starts at line st
TrailingBlockFrom(st) ==
    /\ IsOpStart(st)
    /\ \A k \in (st + 1)..Len(TrimmedResponse) : ~IsOpStart(k) /\ ~IsOpEnd(k)

\* C19: when the text ends inside an operation block, the blocks found and the
\* operations returned are those of the text cut before that block's start marker,
\* with looseMode on as with looseMode off.
C19_TrailingBlockDiscarded ==
    (CalledParseAiResponse /\ parseResult.mode = "delimited") =>
        \A st \in 1..Len(TrimmedResponse) :
            TrailingBlockFrom(st) =>
                LET before == JoinLines(SubSeq(TrimmedResponse, 1, st - 1)) IN
                /\ parseResult.blocks = findOperationBlocks(before)
                /\ parseResult.operations =
                       parseDelimitedOperations(before, parseCall.shouldValidate,
                                                parseCall.looseMode).operations
                /\ Len(parseResult.operations)
                       <= Cardinality({k \in 1..(st - 1) : IsOpEnd(k)})

\* a text of one complete block followed by the start marker and the lines of a valid
\* delete, without end marker, has been parsed in loose mode to one operation
C19_Witness ==
    /\ CalledParseAiResponse
    /\ parseResult.mode = "delimited"
    /\ parseCall.looseMode
    /\ \E st \in 1..Len(TrimmedResponse) :
           /\ TrailingBlockFrom(st)
           /\ Len(TrimmedResponse) = st + 2
           /\ TrimmedResponse[st + 1] = L_TypeDelete
           /\ TrimmedResponse[st + 2] = L_FilePathA
    /\ Len(parseResult.operations) = 1
    /\ parseResult.operations[1].type = "response"

----------------------------------------------------------------------------
(* Claims about autoFixOperations, checked under SpecFix *)

\* C20: autoFixOperations never calls the model more than maxRetries times, whatever
\* the model answers (an exception, no operation, operations that fail validation);
\* when it has ended, it returned null exactly when no attempt gave valid operations,
\* and then it had made maxRetries calls.
C20_AtMostMaxRetriesCalls ==
    /\ Len(modelCalls) <= maxRetries
    /\ fixPc = "done" =>
           LET succeeded == \E k \in 1..Len(modelCalls) : modelCalls[k].outcome = "valid" IN
           /\ fixResult.status = "null" <=> ~succeeded
           /\ fixResult.status = "null" => Len(modelCalls) = maxRetries
           /\ fixResult.status = "returned" =>
                  modelCalls[Len(modelCalls)].outcome = "valid"

\* with the default maxRetries, three calls of the model have failed in three different
\* ways and autoFixOperations has returned null
C20_Witness ==
    /\ fixPc = "done"
    /\ maxRetries = DefaultMaxRetries
    /\ Len(modelCalls) = DefaultMaxRetries
    /\ fixResult.status = "null"
    /\ {modelCalls[k].outcome : k \in 1..Len(modelCalls)} = {"threw", "no operations", "invalid"}

\* the operations parsed from the reply of call k that are not of type response
FileOpsOf(k) == SelectSeq(modelCalls[k].fixedOps, LAMBDA op : op.type # "response")

\* call k of the model resolved, its reply parsed to at least one operation, and the
\* operations that are not of type response pass the reachability validation
PassesValidation(k) ==
    /\ ~modelCalls[k].reply.threw
    /\ Len(modelCalls[k].fixedOps) > 0
    /\ validateOperationsReachability(FileOpsOf(k), CurrentEnv).isValid

\* C21: a pass whose non-response operations pass the reachability validation is the
\* last call of the model: autoFixOperations has returned at once, what it returned are
\* exactly those operations, and no later attempt was started.
C21_ValidAttemptReturnsAtOnce ==
    \A k \in 1..Len(modelCalls) :
        PassesValidation(k) =>
            /\ k = Len(modelCalls)
            /\ fixPc = "done"
            /\ attempt = k
            /\ fixResult = FixReturned(FileOpsOf(k))
            /\ \A i \in 1..Len(fixResult.operations) : fixResult.operations[i].type # "response"

\* the first pass parsed a response and a delete of an existing file; the delete alone
\* was returned, with one attempt made out of three
C21_Witness ==
    /\ fixPc = "done"
    /\ maxRetries = DefaultMaxRetries
    /\ Len(modelCalls) = 1
    /\ PassesValidation(1)
    /\ Len(modelCalls[1].fixedOps) = 2
    /\ fixResult = FixReturned(<<DeleteOp(FileA)>>)

\* C22: when a call of the model made in the loop has thrown, autoFixOperations
\* returns null.
C22_ModelCallThrowsReturnsNull ==
    (fixPc = "done" /\ \E k \in 1..Len(modelCalls) : modelCalls[k].reply.threw)
        => fixResult = FixNull

\* C23: a pass whose reply parses to no operation neither returns nor ends the loop:
\* the next pass is attempt k + 1, the condition of the loop lets it run when
\* k < maxRetries, and null is returned only when k was the last attempt allowed.
C23_NoOperationsRetries ==
    \A k \in 1..Len(modelCalls) :
        modelCalls[k].outcome = "no operations" =>
            /\ modelCalls[k].attempt = k
            /\ Len(modelCalls) = k =>
                   /\ attempt = k + 1
                   /\ fixPc = "loop" => fixResult = FixPending
                   /\ (fixPc = "loop" /\ k < maxRetries) => AttemptAllowed(attempt, maxRetries)
                   /\ fixPc = "done" => (k = maxRetries /\ fixResult = FixNull)
            /\ Len(modelCalls) > k => modelCalls[k + 1].attempt = k + 1

\* the first reply held no operation, the second pass was made and returned operations
C23_Witness ==
    /\ fixPc = "done"
    /\ Len(modelCalls) = 2
    /\ modelCalls[1].outcome = "no operations"
    /\ ~modelCalls[1].reply.threw
    /\ modelCalls[2].outcome = "valid"
    /\ fixResult.status = "returned"

----------------------------------------------------------------------------
(* Claims about reviewAndExecutePlan and its caller, checked under SpecReview *)

ReviewOver == rvPc \in {"ended", "finished"}
Logged(kind, name) == \E i \in 1..Len(rvLog) : rvLog[i].kind = kind /\ rvLog[i].name = name
\* executePlan was called and is over
Executed == pc = "done"
\* the disk reviewAndExecutePlan validated the plan on: the disk is only written by
\* executePlan, which keeps the disk it started from in fs0
DiskAtValidation == Env(IF pc = "idle" THEN fs ELSE fs0, {RootDir}, {}, {})

\* C24: applied is true, in the function and in what it returns, only when executePlan
\* was called with the current plan, returned, and every operation of that plan
\* succeeded; a call that ended without running the plan, or with a failed operation,
\* did not return applied = true.
C24_AppliedOnlyAfterCleanExecution ==
    /\ (applied \/ rvResult.applied) =>
           /\ rvResult = ReviewReturned(TRUE)
           /\ Executed
           /\ plan = currentOperations
           /\ Logged("call", "executePlan")
           /\ callerView.status = "returned"
           /\ failedOps = 0
           /\ failedOperations = <<>>
           /\ Len(executionResults) = Len(plan)
           /\ \A i \in 1..Len(executionResults) : executionResults[i].success
    /\ (ReviewOver /\ (~Executed \/ failedOps > 0)) => rvResult # ReviewReturned(TRUE)

\* the interactive call returned applied = true for a plan the review had changed
C24_Witness ==
    /\ ~autoApply
    /\ rvResult = ReviewReturned(TRUE)
    /\ currentOperations # rvOperations
    /\ successfulOps = Len(currentOperations)

\* C25: with autoApply the log holds no prompt and no call of autoFixOperations and the
\* review loop is never entered; the call throws when the schema check fails and when
\* the reachability validation fails, executePlan is called only when both pass, and
\* when executePlan throws the call throws.
C25_AutoApplyNeverPrompts ==
    autoApply =>
        /\ \A i \in 1..Len(rvLog) : rvLog[i] = ExecuteCall(rvOperations)
        /\ rounds = 0
        /\ ~lastReview.called
        /\ rvPc # "displaying"
        /\ (ReviewOver /\ ~validateOperations(rvOperations).isValid) =>
               (rvResult.status = "threw" /\ ~Executed)
        /\ (ReviewOver /\ ~validateOperationsReachability(rvOperations, DiskAtValidation).isValid) =>
               (rvResult.status = "threw" /\ ~Executed)
        /\ pc # "idle" =>
               /\ plan = rvOperations
               /\ validateOperations(rvOperations).isValid
               /\ validateOperationsReachability(rvOperations, DiskAtValidation).isValid
        /\ (ReviewOver /\ Executed /\ callerView.status = "threw") =>
               rvResult = ReviewThrew(callerView.errorKind)
        /\ (ReviewOver /\ rvResult.status = "returned" /\ rvOperations # <<>>) =>
               (Executed /\ callerView.status = "returned")

\* with autoApply a plan passed both validations, an operation failed on the disk and
\* the call threw the executor's error
C25_Witness ==
    /\ autoApply
    /\ ReviewOver
    /\ Executed
    /\ failedOps > 0
    /\ rvResult = ReviewThrew("incomplete")

IsPrompt(i, name) == rvLog[i].kind = "prompt" /\ rvLog[i].name = name
IsAutoFixCall(i, result) ==
    rvLog[i].kind = "call" /\ rvLog[i].name = "autoFixOperations" /\ rvLog[i].result = result

\* C26: in the interactive loop the auto-fix offer of an apply comes first: it directly
\* follows the choice (or the confirmation asked for a schema failure), and the
\* force-apply confirmation for the unreachable plan is asked only directly after a
\* declined offer or after a call of autoFixOperations that returned null.  When the
\* call returned a plan, that plan is the current plan, executePlan is not called in
\* this pass and the next thing shown is the choice prompt.
C26_AutoFixBeforeForceApply ==
    \A i \in 1..Len(rvLog) :
        /\ IsPrompt(i, "tryAutoFix") =>
               /\ ~autoApply
               /\ i > 1
               /\ IsPrompt(i - 1, "choice") \/ IsPrompt(i - 1, "forceApply:invalid")
        /\ IsPrompt(i, "forceApply:unreachable") =>
               /\ i > 2
               /\ \/ IsPrompt(i - 1, "tryAutoFix")
                  \/ IsAutoFixCall(i - 1, "null") /\ IsPrompt(i - 2, "tryAutoFix")
        /\ (i > 1 /\ IsPrompt(i - 1, "tryAutoFix") /\ IsAutoFixCall(i, "returned")) =>
               /\ i < Len(rvLog) => IsPrompt(i + 1, "choice")
               /\ i = Len(rvLog) =>
                      /\ rvPc = "displaying"
                      /\ currentOperations = rvLog[i].plan
                      /\ rvResult = ReviewPending
                      /\ ~applied

\* an unreachable plan was replaced by the plan auto-fix returned, shown again, and
\* applied in a later pass
C26_Witness ==
    /\ rvResult = ReviewReturned(TRUE)
    /\ \E i \in 2..Len(rvLog) :
          /\ IsPrompt(i - 1, "tryAutoFix")
          /\ IsAutoFixCall(i, "returned")
          /\ rvLog[i].plan # rvOperations
          /\ rvLog[i].plan = plan
    /\ \E i \in 1..Len(rvLog) : IsPrompt(i, "forceApply:unreachable")

\* C27: when the interactive call is over and an operation failed in executePlan, the
\* fix-and-retry confirmation was shown.
C27_ExecutionFailureOffersFix ==
    (~autoApply /\ ReviewOver /\ Executed /\ failedOps > 0) => Logged("prompt", "tryFix")

\* C28: when the diff viewer returned null for every operation of a review, the plan
\* after the review is the plan before it.
C28_NullDiffKeepsOperation ==
    (lastReview.called /\ \A i \in 1..Len(lastReview.answers) : lastReview.answers[i] = DiffNull)
        => lastReview.after = lastReview.before

\* C29: a review shows one diff for each create and each edit operation of the plan,
\* in order, with the empty text as the original of a create; and when no operation
\* was dropped, an operation whose diff the user saved with a changed text holds the
\* saved text as content and no find afterwards.
C29_DiffForEveryCreateAndEdit ==
    lastReview.called =>
        LET shown == SelectSeq(lastReview.before, LAMBDA op : op.type \in {"create", "edit"}) IN
        /\ Len(lastReview.diffs) = Len(shown)
        /\ \A i \in 1..Len(shown) :
              /\ lastReview.diffs[i].filePath = shown[i].filePath
              /\ shown[i].type = "create" => lastReview.diffs[i].original = <<>>
        /\ Len(lastReview.after) = Len(lastReview.before) =>
              \A i \in 1..Len(lastReview.before) :
                  (/\ lastReview.before[i].type \in {"create", "edit"}
                   /\ lastReview.answers[i].kind = "saved"
                   /\ lastReview.answers[i].text # lastReview.before[i].content) =>
                      /\ lastReview.after[i].content = lastReview.answers[i].text
                      /\ lastReview.after[i].find = <<>>

\* the content, when executePlan was called, of the existing files the edit and delete
\* operations of the executed plan name
OriginalsOfExecutedPlan ==
    [q \in {plan[i].filePath : i \in
               {k \in 1..Len(plan) : /\ plan[k].type \in {"edit", "delete"}
                                     /\ Exists(fs0, plan[k].filePath)}}
       |-> fs0[q]]

\* C30: a history entry holds the plan executePlan was given and the content, before
\* the plan ran, of every existing file its edit and delete operations touched.
C30_HistoryHoldsExecutedPlan ==
    \A i \in 1..Len(history) :
        /\ history[i].operations = plan
        /\ history[i].fileOriginalContents = OriginalsOfExecutedPlan

----------------------------------------------------------------------------
(* Claims about the wording of reachability errors, checked under SpecReach *)

\* what the wording of a reachability error asserts about the disk
ReasonHolds(e, op, env) ==
    CASE e.kind = "file already exists" -> Accessible(env, op.filePath)
      [] e.kind = "file is ignored" -> op.filePath \in env.ignored
      [] e.kind = "cannot access file" ->
             ~Accessible(env, op.filePath) \/ op.filePath \in env.unreadable
      [] e.kind = "find text not found" ->
             computeFindMatchCount(env.fs[op.filePath], op.find) = 0
      [] e.kind = "multiple matches" ->
             /\ computeFindMatchCount(env.fs[op.filePath], op.find) > 1
             /\ e.count = computeFindMatchCount(env.fs[op.filePath], op.find)
      [] e.kind = "source file does not exist" -> ~Accessible(env, op.oldPath)
      [] e.kind = "cannot access target directory" -> ~Accessible(env, DirOf(op.newPath))
      [] e.kind = "target file already exists" -> Accessible(env, op.newPath)
      [] e.kind = "file does not exist" -> ~Accessible(env, op.filePath)
      [] OTHER -> TRUE

\* the paths an operation names
PathsOf(op) == {op.filePath, op.oldPath, op.newPath} \ {""}

\* C34: the error of a failed reachability check of a create, edit, move or delete
\* that names its paths prints one of the operation's paths, and the condition its
\* wording states is the one that does not hold on the disk.
C34_ErrorNamesPathAndReason ==
    (/\ rresult.mode = "one"
     /\ ~rresult.threw
     /\ ~rresult.isValid
     /\ rops[1].type \in {"create", "edit", "move", "delete"}
     /\ (rops[1].type = "move" => rops[1].oldPath # "" /\ rops[1].newPath # "")
     /\ (rops[1].type # "move" => rops[1].filePath # ""))
        => /\ rresult.errors[1].path \in PathsOf(rops[1])
           /\ ReasonHolds(rresult.errors[1], rops[1], CurrentEnv)

----------------------------------------------------------------------------
(* Claims about the result of an auto-fix, checked under SpecFix and SpecReview *)

\* C40: a result of autoFixOperations that is not null holds at least one operation,
\* and the plan the reviewer holds after a successful auto-fix is not empty.
C40_FixResultNotEmpty ==
    /\ fixResult.status = "returned" => Len(fixResult.operations) > 0
    /\ \A i \in 1..Len(rvLog) :
          (IsAutoFixCall(i, "returned") /\ i = Len(rvLog)) => Len(currentOperations) > 0

----------------------------------------------------------------------------
(* Claims about the apply step of the interactive loop, checked under SpecReview *)

IsExecuteCall(i) == rvLog[i].kind = "call" /\ rvLog[i].name = "executePlan"
IsConfirm(i, name, answer) == rvLog[i] = Confirm(name, answer)

\* the position of the choice prompt that opened the pass event i belongs to
PassStart(i) ==
    CHOOSE c \in 1..i : /\ IsPrompt(c, "choice")
                        /\ \A d \in (c + 1)..i : ~IsPrompt(d, "choice")

\* the user said yes to the named confirmation in the pass that led to event i
ConfirmedBefore(i, name) == \E j \in PassStart(i)..i : IsConfirm(j, name, TRUE)

\* C38: in the interactive loop executePlan is called only for a plan that passed the
\* schema validation of its apply step or whose schema force-apply confirmation the
\* user accepted, and that passed the reachability validation or whose reachability
\* force-apply confirmation the user accepted; and right after a declined force-apply
\* confirmation the reviewer is displaying, executePlan was not called and the disk
\* is the disk of the start.
C38_ExecuteOnlyValidatedOrForced ==
    ~autoApply =>
        /\ \A i \in 1..Len(rvLog) :
              IsExecuteCall(i) =>
                  /\ \/ validateOperations(rvLog[i].plan).isValid
                     \/ ConfirmedBefore(i, "forceApply:invalid")
                  /\ \/ validateOperationsReachability(rvLog[i].plan, DiskAtValidation).isValid
                     \/ ConfirmedBefore(i, "forceApply:unreachable")
        /\ (/\ Len(rvLog) > 0
            /\ \/ IsConfirm(Len(rvLog), "forceApply:invalid", FALSE)
               \/ IsConfirm(Len(rvLog), "forceApply:unreachable", FALSE))
              => rvPc = "displaying" /\ pc = "idle" /\ fs = fs0 /\ calls = <<>>

\* C38 witness: executePlan ran a plan that failed both validations after the user
\* accepted both force-apply confirmations.
C38_Witness ==
    /\ ~autoApply
    /\ Executed
    /\ \E i \in 1..Len(rvLog) :
          /\ IsExecuteCall(i)
          /\ ~validateOperations(rvLog[i].plan).isValid
          /\ ~validateOperationsReachability(rvLog[i].plan, DiskAtValidation).isValid
          /\ ConfirmedBefore(i, "forceApply:invalid")
          /\ ConfirmedBefore(i, "forceApply:unreachable")

\* C39: after the user accepted the force-apply confirmation asked for a schema
\* failure and executePlan was called in that pass, every operation of the plan was
\* handed to the executor's loop and has a result.
C39_ForcedInvalidPlanIsExecuted ==
    (/\ ~autoApply
     /\ Executed
     /\ \E i \in 1..Len(rvLog) :
           IsExecuteCall(i) /\ ConfirmedBefore(i, "forceApply:invalid"))
        => /\ Len(plan) > 0
           /\ Len(executionResults) = Len(plan)

----------------------------------------------------------------------------
(* Claims about validation followed by execution, checked under SpecReview *)

\* C37: when the batch reachability validation accepts the plan on the disk
\* executePlan started on and no primitive met a disk fault, executePlan returns with
\* a result for every operation and no failed operation.
C37_AcceptedPlanCompletes ==
    (/\ Executed
     /\ NoDiskFault
     /\ validateOperationsReachability(plan, DiskAtValidation).isValid)
        => /\ callerView.status = "returned"
           /\ failedOps = 0
           /\ Len(executionResults) = Len(plan)

----------------------------------------------------------------------------
(* Claims about how often a plan is run, checked under SpecReview *)

\* C35: the log of one reviewAndExecutePlan call holds at most one call of
\* executePlan, and the primitives one executePlan call invoked were invoked for
\* operations of the plan in strictly increasing position.
C35_PlanConsumedOnce ==
    /\ Cardinality({i \in 1..Len(rvLog) : IsExecuteCall(i)}) <= 1
    /\ \A k \in 1..Len(calls) :
          /\ calls[k].index \in 1..Len(plan)
          /\ \A j \in 1..(k - 1) : calls[j].index < calls[k].index

\* C35 witness: a reviewer call is over whose one executePlan call dispatched two
\* operations.
C35_Witness ==
    /\ ReviewOver
    /\ Executed
    /\ Cardinality({i \in 1..Len(rvLog) : IsExecuteCall(i)}) = 1
    /\ Len(calls) = 2
    /\ calls[1].index = 1
    /\ calls[2].index = 2

----------------------------------------------------------------------------
(* Claims about the capture of a content sub-block, checked under SpecParse *)

\* C32: when the first sub-block of a block is a content sub-block, no start marker
\* follows its start marker, and line e is the first content end marker after it,
\* then the content field holds exactly the lines between the start marker and
\* line e: every line before the named end marker was appended and none closed
\* the sub-block.
C32_OnlyNamedEndCloses ==
    (CalledParseBlock /\ ~parseResult.threw) =>
        \A i, e \in 1..Len(BlockLines) :
            (/\ i < e
             /\ StartKey(Trim(BlockLines[i])) = "content"
             /\ \A k \in 1..Len(BlockLines) : k # i => ~IsSubStart(k)
             /\ BlockLines[e] = L_ContentEnd
             /\ \A k \in (i + 1)..(e - 1) : BlockLines[k] # L_ContentEnd)
                => parseResult.operations[1].content
                       = JoinLines(SubSeq(BlockLines, i + 1, e - 1))


\* the texts of one line an emitter may put in a content sub-block
EmittedTexts == {<<L_Hello>>, <<L_ContentEnd>>}

\* C33: when the block parsed is the block emitted for a content text, with the
\* text's delimiter-looking lines escaped, the content field of the parsed operation
\* is that text.
C33_ParsedContentIsUnescaped ==
    (CalledParseBlock /\ ~parseResult.threw) =>
        \A text \in EmittedTexts :
            BlockLines = EmittedBlock(text) => parseResult.operations[1].content = text

----------------------------------------------------------------------------
(* Claims about the conversation loops, checked under SpecGather *)

\* the bound the loop is said to have: the configured autoContext.maxRounds, 2 when
\* it is not set, and 3 without auto-context
SaidMaxRounds ==
    IF ~autoContextEnabled THEN PlainMaxRounds
    ELSE IF maxRoundsSetting.set THEN maxRoundsSetting.value
    ELSE FallbackMaxRounds

\* C31: a conversation loop never makes more callAi calls than that bound, and the
\* reply it hands on is the last one it received.
C31_AtMostMaxRoundsCalls ==
    gatherPc # "idle" =>
        /\ aiCalls <= SaidMaxRounds
        /\ finalResponse.handler # "none" => finalResponse.response = allResponses

----------------------------------------------------------------------------
(* Claims about the objects that hold the plan, checked under SpecAlias *)

====
